---------------------------- MODULE Spec2Model ----------------------------
(***************************************************************************)
(* A model of framework1's SQL query builder (database/QueryBuilder.py),   *)
(* of ActiveRecord's overrides of it (database/ActiveRecord.py) and of the *)
(* relationship bulk preloader (database/BulkPreloader.py).                *)
(*                                                                         *)
(* SQL text is a sequence of tokens.  A token is a record [txt, val]: txt  *)
(* is the text the code emits; val is history information, the value the   *)
(* builder call that emitted a '%s' placeholder supplied for it (None for  *)
(* every other token).  The code never reads val: SqlText erases it.       *)
(***************************************************************************)
EXTENDS Integers, Sequences, FiniteSets, TLC

VARIABLES qb,       \* the query builder under construction
          prev,     \* qb before the last call
          qbare,    \* the same calls without order_by/limit/offset/paginate
          last,     \* the last call: [op, x, y, err]
          ops,      \* names of the calls made so far
          cl,       \* the builder the last clone()/remove_first_condition() returned
          res,      \* what the last update() returned: [err, sql, params, setvals]
          ncalls    \* number of calls made

qvars == <<qb, prev, qbare, last, ops, cl, res, ncalls>>

VARIABLES tables,       \* the rows of each database's table, in primary-key order
          models,       \* BulkPreloader.models: the parent records
          withs,        \* BulkPreloader.withs: the with-list, a path per entry
          pc,           \* where run() stands
          queries,      \* what _build_queries returned
          join_meta,
          raw_results,  \* what _execute_pqueries returned
          batches,      \* the pquery calls of _execute_pqueries, with their results
          qlog,         \* every query sent to a database, nested runs included
          raised        \* the exception run() ended with, "" if none

bpvars == <<tables, models, withs, pc, queries, join_meta, raw_results, batches, qlog, raised>>

VARIABLES trows,         \* the rows of table t, in primary-key order
          prows,         \* trows before the last call
          cls_with,      \* M.__with__
          cls_overrides, \* M._with_overrides
          listeners,     \* M's class-level listeners, per event name
          obj,           \* the query or record the calls are made on
          pobj,          \* obj before the last call
          resolved,      \* the with-list of the last retrieval's preloader
          trace,         \* the events fired and the statements sent by the last call
          returned,      \* what the last update() returned
          alast,         \* the last call on the model class: [op, x, err]
          acalls         \* number of calls made on the model class

arvars == <<trows, prows, cls_with, cls_overrides, listeners, obj, pobj, resolved, trace,
            returned, alast, acalls>>

VARIABLES files,         \* the files of the working directory: path -> content
          dirs,          \* its directories
          pfiles,        \* files before the last command
          pdirs,         \* dirs before the last command
          clast,         \* the last scaffolding command: [op, name, overwrite, err]
          ccalls         \* number of scaffolding commands run

clivars == <<files, dirs, pfiles, pdirs, clast, ccalls>>

VARIABLES history,       \* .migrations/schemas: model name -> the saved fields
          phistory,      \* history before the last migrate()
          mtrace,        \* what the last migrate() did, in order
          mlast,         \* the last migrate(): [dry_run, replay, models, raised]
          mruns          \* number of migrate() runs

migvars == <<history, phistory, mtrace, mlast, mruns>>

toolvars == <<clivars, migvars>>

vars == <<qvars, bpvars, arvars, toolvars>>

(***************************************************************************)
(* Bounds of the model.                                                    *)
(***************************************************************************)
MaxCalls == 3
MaxVal == 1
MaxRows == 2
MaxPriority == 1
MaxARCalls == 4
MaxModels == 2
MaxMigrations == 2
MaxFail == 2
MaxCLICalls == 2

None == 0 - 1
Vals == 0 .. MaxVal
Pages == 0 .. 2

(***************************************************************************)
(* Tokens and sequence helpers.                                            *)
(***************************************************************************)
T(s) == [txt |-> s, val |-> None]
PH(v) == [txt |-> "%s", val |-> v]

RECURSIVE Flatten(_)
Flatten(ss) == IF ss = <<>> THEN <<>> ELSE Head(ss) \o Flatten(Tail(ss))

RECURSIVE JoinToks(_, _)
JoinToks(ss, sep) ==
  IF ss = <<>> THEN <<>>
  ELSE IF Len(ss) = 1 THEN Head(ss)
  ELSE Head(ss) \o <<T(sep)>> \o JoinToks(Tail(ss), sep)

StrToks(strs) == [i \in DOMAIN strs |-> <<T(strs[i])>>]

IsPH(t) == t.txt = "%s"
SqlText(toks) == [i \in DOMAIN toks |-> toks[i].txt]
PlaceholderVals(toks) ==
  LET phs == SelectSeq(toks, IsPH) IN [i \in DOMAIN phs |-> phs[i].val]
CountPlaceholders(toks) == Len(SelectSeq(toks, IsPH))

\* list.remove(p): drops the first element equal to p; ValueError when absent.
RECURSIVE RemoveFirst(_, _)
RemoveFirst(s, p) ==
  IF s = <<>> THEN <<>>
  ELSE IF Head(s) = p THEN Tail(s)
  ELSE <<Head(s)>> \o RemoveFirst(Tail(s), p)

\* s without the elements at the positions in idx.
DropIdx(s, idx) ==
  LET keep == {i \in DOMAIN s : i \notin idx}
      F[i \in 0 .. Len(s)] ==
        IF i = 0 THEN <<>> ELSE IF i \in keep THEN Append(F[i - 1], s[i]) ELSE F[i - 1]
  IN F[Len(s)]

RECURSIVE RemoveAll(_, _)
RemoveAll(s, ps) ==
  IF ps = <<>> THEN s ELSE RemoveAll(RemoveFirst(s, Head(ps)), Tail(ps))

(***************************************************************************)
(* QueryBuilder.__init__ / ActiveRecord.__init__                           *)
(***************************************************************************)
NewBuilder(cls, driver) ==
  [cls |-> cls, driver |-> driver,
   table |-> <<T("t")>>,
   columns |-> <<<<T("*")>>>>,
   conditions |-> <<>>,
   having_conditions |-> <<>>,
   group_by_columns |-> <<>>,
   joins |-> <<>>,
   ctes |-> <<>>,
   unions |-> <<>>,
   order_by_clauses |-> <<>>,
   limit_count |-> "None", limit_val |-> None,
   offset_count |-> "None", offset_val |-> None,
   rows_fetch |-> "None", fetch_val |-> None,
   parameters |-> <<>>,
   pagination_params |-> <<>>,
   pg_idx |-> {},
   distinct_flag |-> FALSE]

Cond(logic, col, op, toks) == [logic |-> logic, col |-> col, op |-> op, toks |-> toks]

(***************************************************************************)
(* Rendering: _build_conditions and to_sql                                 *)
(***************************************************************************)
CondToks(conds) ==
  Flatten([i \in DOMAIN conds |-> <<T(conds[i].logic)>> \o conds[i].toks])

\* The leading "AND " / "OR " is cut; " WHERE " is put in front unless nested.
build_conditions(q, nested) ==
  IF q.conditions = <<>> THEN <<>>
  ELSE IF nested THEN Tail(CondToks(q.conditions))
  ELSE <<T("WHERE")>> \o Tail(CondToks(q.conditions))

LimitTok(q) == IF q.limit_count = "%s" THEN PH(q.limit_val) ELSE T(q.limit_count)
OffsetTok(q) == IF q.offset_count = "%s" THEN PH(q.offset_val) ELSE T(q.offset_count)
FetchTok(q) == IF q.rows_fetch = "%s" THEN PH(q.fetch_val) ELSE T(q.rows_fetch)

to_sql(q) ==
  (IF q.ctes # <<>> THEN <<T("WITH")>> \o JoinToks(q.ctes, ",") ELSE <<>>)
  \o <<T(IF q.distinct_flag THEN "SELECT DISTINCT" ELSE "SELECT")>>
  \o JoinToks(q.columns, ",") \o <<T("FROM")>> \o q.table
  \o Flatten(StrToks(q.joins))
  \o build_conditions(q, FALSE)
  \o (IF q.group_by_columns # <<>>
      THEN <<T("GROUP BY")>> \o JoinToks(StrToks(q.group_by_columns), ",") ELSE <<>>)
  \o (IF q.having_conditions # <<>>
      THEN <<T("HAVING")>> \o Tail(CondToks(q.having_conditions)) ELSE <<>>)
  \o (IF q.order_by_clauses # <<>>
      THEN <<T("ORDER BY")>>
           \o JoinToks([i \in DOMAIN q.order_by_clauses |->
                          <<T(q.order_by_clauses[i].col), T(q.order_by_clauses[i].dir)>>], ",")
      ELSE <<>>)
  \o (IF q.limit_count # "None" THEN <<T("LIMIT"), LimitTok(q)>> ELSE <<>>)
  \o (IF q.rows_fetch # "None"
      THEN <<T("OFFSET"), (IF q.offset_count = "None" THEN T("0") ELSE OffsetTok(q)),
             T("ROWS"), T("FETCH"), T("NEXT"), FetchTok(q), T("ROWS"), T("ONLY")>>
      ELSE IF q.offset_count # "None" THEN <<T("OFFSET"), OffsetTok(q)>> ELSE <<>>)
  \o Flatten(q.unions)

get(q) == <<SqlText(to_sql(q)), q.parameters>>


(***************************************************************************)
(* Clause-adding methods.  Each is the code path taken for plain values    *)
(* (not Raw, not a nested builder), unless the name says otherwise.        *)
(***************************************************************************)
AddCond(q, c, params) ==
  [q EXCEPT !.conditions = Append(@, c), !.parameters = @ \o params]

where(q, col, v) == AddCond(q, Cond("AND", col, "=", <<T(col), T("="), PH(v)>>), <<v>>)

or_where(q, col, v) == AddCond(q, Cond("OR", col, "=", <<T(col), T("="), PH(v)>>), <<v>>)

\* where(Raw(expr)) with no value: the expression alone, no parameter.
where_raw(q, expr) == AddCond(q, Cond("AND", "", "RAW", <<T(expr)>>), <<>>)

InToks(col, kw, vs) ==
  <<T(col), T(kw), T("(")>> \o JoinToks([i \in DOMAIN vs |-> <<PH(vs[i])>>], ",") \o <<T(")")>>

where_in(q, col, vs) == AddCond(q, Cond("AND", col, "IN", InToks(col, "IN", vs)), vs)

where_not_in(q, col, vs) == AddCond(q, Cond("AND", col, "NOT IN", InToks(col, "NOT IN", vs)), vs)

where_between(q, col, lo, hi) ==
  AddCond(q, Cond("AND", col, "BETWEEN", <<T(col), T("BETWEEN"), PH(lo), T("AND"), PH(hi)>>),
          <<lo, hi>>)

where_null(q, col) == AddCond(q, Cond("AND", col, "IS NULL", <<T(col), T("IS NULL")>>), <<>>)

\* The callback of nest(): where(c, vs[1]) then or_where(c, vs[i]) on a fresh builder.
RECURSIVE NestCallback(_, _)
NestCallback(sub, vs) ==
  IF vs = <<>> THEN sub
  ELSE NestCallback(IF sub.conditions = <<>> THEN where(sub, "n", Head(vs))
                    ELSE or_where(sub, "n", Head(vs)), Tail(vs))

NestWith(q, logic, vs) ==
  LET sub == NestCallback(NewBuilder("QueryBuilder", "None"), vs)
      condition_sql == build_conditions(sub, TRUE)
  IN IF condition_sql # <<>>
     THEN AddCond(q, Cond(logic, "", "NEST", <<T("(")>> \o condition_sql \o <<T(")")>>),
                  sub.parameters)
     ELSE q

nest(q, vs) == NestWith(q, "AND", vs)

or_nest(q, vs) == NestWith(q, "OR", vs)

\* A subquery handed to where_exists / union / with_cte / add_select_subquery.
SubQuery(v) == where([NewBuilder("QueryBuilder", "None") EXCEPT !.table = <<T("s")>>], "x", v)

where_exists(q, sub) ==
  AddCond(q, Cond("AND", "", "EXISTS", <<T("EXISTS"), T("(")>> \o to_sql(sub) \o <<T(")")>>),
          sub.parameters)

having(q, col, v) ==
  [q EXCEPT !.having_conditions = Append(@, Cond("AND", col, ">", <<T(col), T(">"), PH(v)>>)),
            !.parameters = Append(@, v)]

limit(q, count) ==
  IF q.driver = "mssql"
  THEN [q EXCEPT !.rows_fetch = "%s", !.fetch_val = count, !.parameters = Append(@, count)]
  ELSE [q EXCEPT !.limit_count = "%s", !.limit_val = count, !.parameters = Append(@, count)]

offset(q, count) ==
  [q EXCEPT !.offset_count = "%s", !.offset_val = count, !.parameters = Append(@, count)]

remove_limit(q) ==
  [q EXCEPT !.rows_fetch = "None", !.limit_count = "None", !.offset_count = "None"]

\* BulkPreloader.remove_first_condition on the (copied) query: conditions[1:]
\* and parameters[1:]; the recorded positions of the pagination parameters
\* move with the list.
remove_first_condition(q) ==
  [q EXCEPT !.conditions = IF @ = <<>> THEN @ ELSE Tail(@),
            !.parameters = IF @ = <<>> THEN @ ELSE Tail(@),
            !.pg_idx = IF q.parameters = <<>> THEN @ ELSE {i - 1 : i \in @ \ {1}}]

union(q, sub) ==
  [q EXCEPT !.unions = Append(@, <<T("UNION")>> \o to_sql(sub)),
            !.parameters = @ \o sub.parameters]

with_cte(q, name, sub) ==
  [q EXCEPT !.ctes = Append(@, <<T(name), T("AS"), T("(")>> \o to_sql(sub) \o <<T(")")>>),
            !.parameters = @ \o sub.parameters]

add_select_subquery(q, sub, alias) ==
  [q EXCEPT !.columns = Append(@, <<T("(")>> \o to_sql(sub) \o <<T(")"), T("AS"), T(alias)>>),
            !.parameters = @ \o sub.parameters]

\* case([(condition, v)], else_result, alias)
case_(q, v, else_result) ==
  [q EXCEPT !.parameters = (@ \o <<v>>) \o <<else_result>>,
            !.columns = Append(@, <<T("CASE WHEN c THEN"), PH(v), T("ELSE"), PH(else_result),
                                    T("END AS k")>>)]

Upper(direction) == IF direction = "asc" THEN "ASC" ELSE "DESC"

order_by(q, column, direction) ==
  LET hit == {i \in DOMAIN q.order_by_clauses : q.order_by_clauses[i].col = column}
      d == Upper(direction)
  IN IF hit # {}
     THEN LET i == CHOOSE j \in hit : \A k \in hit : j <= k
          IN [q EXCEPT !.order_by_clauses[i] = [col |-> column, dir |-> d]]
     ELSE [q EXCEPT !.order_by_clauses = Append(@, [col |-> column, dir |-> d])]

group_by(q, column) == [q EXCEPT !.group_by_columns = Append(@, column)]

join(q, clause) ==
  IF \E i \in DOMAIN q.joins : q.joins[i] = clause THEN q
  ELSE [q EXCEPT !.joins = Append(@, clause)]

distinct(q) == [q EXCEPT !.distinct_flag = TRUE]

(***************************************************************************)
(* paginate: [q |-> the builder afterwards, err |-> "" or the exception].  *)
(***************************************************************************)
PageOffsetOffByOne(page, per_page) == page * per_page

PageOffset(page, per_page) == (page - 1) * per_page

paginate(q, page, per_page) ==
  IF page < 1 \/ per_page < 1 THEN [q |-> q, err |-> "ValueError"]
  ELSE
    LET reset == [q EXCEPT !.limit_count = "None", !.offset_count = "None",
                           !.rows_fetch = "None",
                           !.parameters = RemoveAll(@, q.pagination_params),
                           !.pagination_params = <<>>,
                           !.pg_idx = {}]
        off == PageOffset(page, per_page)
        n == Len(reset.parameters)
    IN IF q.driver = "mssql"
       THEN IF q.order_by_clauses = <<>> THEN [q |-> reset, err |-> "ValueError"]
            ELSE [q |-> [reset EXCEPT !.offset_count = "%s", !.offset_val = off,
                                      !.rows_fetch = "%s", !.fetch_val = per_page,
                                      !.parameters = @ \o <<off, per_page>>,
                                      !.pagination_params = <<off, per_page>>,
                                      !.pg_idx = {n + 1, n + 2}],
                  err |-> ""]
       ELSE [q |-> [reset EXCEPT !.limit_count = "%s", !.limit_val = per_page,
                                 !.offset_count = "%s", !.offset_val = off,
                                 !.parameters = @ \o <<per_page, off>>,
                                 !.pagination_params = <<per_page, off>>,
                                 !.pg_idx = {n + 1, n + 2}],
             err |-> ""]

(***************************************************************************)
(* clone: QueryBuilder.clone, and ActiveRecord's override of it.           *)
(***************************************************************************)
QueryBuilder_clone(q) ==
  [NewBuilder(q.cls, q.driver) EXCEPT
     !.table = q.table, !.columns = q.columns, !.conditions = q.conditions,
     !.parameters = q.parameters, !.order_by_clauses = q.order_by_clauses,
     !.having_conditions = q.having_conditions, !.group_by_columns = q.group_by_columns,
     !.joins = q.joins, !.ctes = q.ctes, !.unions = q.unions,
     !.limit_count = q.limit_count, !.limit_val = q.limit_val,
     !.offset_count = q.offset_count, !.offset_val = q.offset_val,
     !.rows_fetch = q.rows_fetch, !.fetch_val = q.fetch_val,
     !.distinct_flag = q.distinct_flag]

ActiveRecord_clone(q) ==
  [NewBuilder(q.cls, q.driver) EXCEPT
     !.columns = q.columns, !.conditions = q.conditions, !.parameters = q.parameters]

clone(q) == IF q.cls = "ActiveRecord" THEN ActiveRecord_clone(q) ELSE QueryBuilder_clone(q)

(***************************************************************************)
(* as_count                                                                *)
(***************************************************************************)
as_count(q) ==
  LET cleared == [q EXCEPT !.limit_count = "None", !.offset_count = "None",
                           !.rows_fetch = "None", !.order_by_clauses = <<>>]
  IN IF cleared.group_by_columns # <<>>
     THEN LET sub == [clone(cleared) EXCEPT !.columns = <<<<T("1")>>>>,
                        !.order_by_clauses = <<>>, !.limit_count = "None",
                        !.offset_count = "None", !.rows_fetch = "None"]
          IN [cleared EXCEPT !.columns = <<<<T("COUNT(*) AS aggregate")>>>>,
                !.joins = <<>>, !.conditions = <<>>, !.group_by_columns = <<>>,
                !.having_conditions = <<>>, !.distinct_flag = FALSE,
                !.unions = <<>>, !.ctes = <<>>,
                !.table = <<T("(")>> \o to_sql(sub) \o <<T(")"), T("AS"), T("count_subquery")>>,
                !.parameters = sub.parameters]
     ELSE [cleared EXCEPT !.columns = <<<<T("COUNT(*) AS aggregate")>>>>,
                          !.distinct_flag = FALSE]

(***************************************************************************)
(* update(values): values is the dict, a sequence of [k, v] in its order.  *)
(***************************************************************************)
\* _quote_column: the column between the driver's quote characters.
quote_column(q, col) ==
  IF q.driver = "mysql" THEN <<T("BACKTICK"), T(col), T("BACKTICK")>>
  ELSE IF q.driver = "mssql" THEN <<T("["), T(col), T("]")>> ELSE <<T(col)>>

SetVals(values) == [i \in DOMAIN values |-> values[i].v]

update(q, values) ==
  IF values = <<>>
  THEN [err |-> "ValueError", sql |-> <<>>, params |-> <<>>, setvals |-> <<>>]
  ELSE IF build_conditions(q, FALSE) = <<>>
  THEN [err |-> "ValueError", sql |-> <<>>, params |-> <<>>, setvals |-> SetVals(values)]
  ELSE [err |-> "", setvals |-> SetVals(values),
        sql |-> <<T("UPDATE")>> \o q.table \o <<T("SET")>>
                \o JoinToks([i \in DOMAIN values |->
                      quote_column(q, values[i].k) \o <<T("="), PH(values[i].v)>>], ",")
                \o build_conditions(q, FALSE),
        params |-> SetVals(values) \o q.parameters]


(***************************************************************************)
(* The builder as a state machine: one action per method.                  *)
(***************************************************************************)
Drivers == {"mysql", "mssql"}
Classes == {"QueryBuilder", "ActiveRecord"}

\* The argument lists of where_in / where_not_in and of a nest() callback.
InLists == {[i \in 1 .. n |-> i - 1] : n \in 0 .. MaxVal + 1}

SubQueries == {SubQuery(v) : v \in Vals}

\* The dicts handed to update().
UpdateValues == {<<>>} \cup {<<[k |-> "a", v |-> v]>> : v \in Vals}
                \cup {<<[k |-> "a", v |-> v], [k |-> "b", v |-> 0]>> : v \in Vals}

\* No preloader is running while the builder is exercised.
BPIdle ==
  /\ tables = <<>>
  /\ models = <<>>
  /\ withs = <<>>
  /\ pc = "idle"
  /\ queries = <<>>
  /\ join_meta = <<>>
  /\ raw_results = <<>>
  /\ batches = <<>>
  /\ qlog = <<>>
  /\ raised = ""

\* No model class is in use while the builder or the preloader is exercised.
ARIdle ==
  /\ trows = <<>>
  /\ prows = <<>>
  /\ cls_with = {}
  /\ cls_overrides = {}
  /\ listeners = <<>>
  /\ obj = <<>>
  /\ pobj = <<>>
  /\ resolved = {}
  /\ trace = <<>>
  /\ returned = <<>>
  /\ alast = <<>>
  /\ acalls = 0

\* No command line tool runs while the database layer is exercised.
CLIIdle ==
  /\ files = <<>>
  /\ dirs = {}
  /\ pfiles = <<>>
  /\ pdirs = {}
  /\ clast = <<>>
  /\ ccalls = 0

MigIdle ==
  /\ history = <<>>
  /\ phistory = <<>>
  /\ mtrace = <<>>
  /\ mlast = <<>>
  /\ mruns = 0

ToolsIdle == CLIIdle /\ MigIdle

NoCall == [op |-> "none", x |-> None, y |-> None, err |-> ""]
NoResult == [err |-> "", sql |-> <<>>, params |-> <<>>, setvals |-> <<>>]

QInit ==
  /\ \E c \in Classes, d \in Drivers : qb = NewBuilder(c, d)
  /\ prev = qb
  /\ qbare = qb
  /\ last = NoCall
  /\ ops = {}
  /\ cl = qb
  /\ res = NoResult
  /\ ncalls = 0
  /\ BPIdle
  /\ ARIdle
  /\ ToolsIdle

Call(name, x, y, err, nq, nbare) ==
  /\ ncalls < MaxCalls
  /\ qb' = nq
  /\ prev' = qb
  /\ qbare' = nbare
  /\ last' = [op |-> name, x |-> x, y |-> y, err |-> err]
  /\ ops' = ops \cup {name}
  /\ ncalls' = ncalls + 1
  /\ UNCHANGED <<bpvars, arvars, toolvars>>

Where ==
  /\ \E v \in Vals : Call("where", v, None, "", where(qb, "a", v), where(qbare, "a", v))
  /\ UNCHANGED <<cl, res>>

OrWhere ==
  /\ \E v \in Vals : Call("or_where", v, None, "", or_where(qb, "a", v), or_where(qbare, "a", v))
  /\ UNCHANGED <<cl, res>>

WhereIn ==
  /\ \E vs \in InLists :
       Call("where_in", Len(vs), None, "", where_in(qb, "a", vs), where_in(qbare, "a", vs))
  /\ UNCHANGED <<cl, res>>

WhereNotIn ==
  /\ \E vs \in InLists :
       Call("where_not_in", Len(vs), None, "",
            where_not_in(qb, "a", vs), where_not_in(qbare, "a", vs))
  /\ UNCHANGED <<cl, res>>

WhereBetween ==
  /\ \E lo \in Vals, hi \in Vals :
       Call("where_between", lo, hi, "",
            where_between(qb, "a", lo, hi), where_between(qbare, "a", lo, hi))
  /\ UNCHANGED <<cl, res>>

WhereNull ==
  /\ Call("where_null", None, None, "", where_null(qb, "a"), where_null(qbare, "a"))
  /\ UNCHANGED <<cl, res>>

Nest ==
  /\ \E vs \in InLists : Call("nest", Len(vs), None, "", nest(qb, vs), nest(qbare, vs))
  /\ UNCHANGED <<cl, res>>

OrNest ==
  /\ \E vs \in InLists : Call("or_nest", Len(vs), None, "", or_nest(qb, vs), or_nest(qbare, vs))
  /\ UNCHANGED <<cl, res>>

WhereExists ==
  /\ \E v \in Vals :
       Call("where_exists", v, None, "",
            where_exists(qb, SubQuery(v)), where_exists(qbare, SubQuery(v)))
  /\ UNCHANGED <<cl, res>>

Having ==
  /\ \E v \in Vals : Call("having", v, None, "", having(qb, "cnt", v), having(qbare, "cnt", v))
  /\ UNCHANGED <<cl, res>>

Limit ==
  /\ \E v \in Vals : Call("limit", v, None, "", limit(qb, v), qbare)
  /\ UNCHANGED <<cl, res>>

Offset ==
  /\ \E v \in Vals : Call("offset", v, None, "", offset(qb, v), qbare)
  /\ UNCHANGED <<cl, res>>

RemoveLimit ==
  /\ Call("remove_limit", None, None, "", remove_limit(qb), remove_limit(qbare))
  /\ UNCHANGED <<cl, res>>

Union ==
  /\ \E v \in Vals :
       Call("union", v, None, "", union(qb, SubQuery(v)), union(qbare, SubQuery(v)))
  /\ UNCHANGED <<cl, res>>

WithCte ==
  /\ \E v \in Vals :
       Call("with_cte", v, None, "",
            with_cte(qb, "w", SubQuery(v)), with_cte(qbare, "w", SubQuery(v)))
  /\ UNCHANGED <<cl, res>>

AddSelectSubquery ==
  /\ \E v \in Vals :
       Call("add_select_subquery", v, None, "",
            add_select_subquery(qb, SubQuery(v), "s1"),
            add_select_subquery(qbare, SubQuery(v), "s1"))
  /\ UNCHANGED <<cl, res>>

Case ==
  /\ \E v \in Vals, e \in Vals :
       Call("case", v, e, "", case_(qb, v, e), case_(qbare, v, e))
  /\ UNCHANGED <<cl, res>>

OrderBy ==
  /\ \E d \in {"asc", "desc"} :
       Call("order_by", None, None, "", order_by(qb, "a", d), qbare)
  /\ UNCHANGED <<cl, res>>

GroupBy ==
  /\ Call("group_by", None, None, "", group_by(qb, "a"), group_by(qbare, "a"))
  /\ UNCHANGED <<cl, res>>

Join ==
  /\ Call("join", None, None, "",
          join(qb, "INNER JOIN u ON t.id = u.tid"), join(qbare, "INNER JOIN u ON t.id = u.tid"))
  /\ UNCHANGED <<cl, res>>

Distinct ==
  /\ Call("distinct", None, None, "", distinct(qb), distinct(qbare))
  /\ UNCHANGED <<cl, res>>

Paginate ==
  /\ \E page \in Pages, per_page \in Pages :
       LET r == paginate(qb, page, per_page)
       IN Call("paginate", page, per_page, r.err, r.q, qbare)
  /\ UNCHANGED <<cl, res>>

AsCount ==
  /\ Call("as_count", None, None, "", as_count(qb), as_count(qbare))
  /\ UNCHANGED <<cl, res>>

Clone ==
  /\ Call("clone", None, None, "", qb, qbare)
  /\ cl' = clone(qb)
  /\ UNCHANGED res

Update ==
  /\ \E values \in UpdateValues :
       LET r == update(qb, values)
       IN /\ Call("update", Len(values), None, r.err, qb, qbare)
          /\ res' = r
  /\ UNCHANGED cl

\* remove_first_condition(query, clone): the copy (clone = True) or the query
\* itself (clone = False) loses its first condition and first parameter.
RemoveFirstCondition ==
  /\ \E copy \in BOOLEAN :
       Call("remove_first_condition", IF copy THEN 1 ELSE 0, None, "",
            IF copy THEN qb ELSE remove_first_condition(qb),
            IF copy THEN qbare ELSE remove_first_condition(qbare))
  /\ cl' = remove_first_condition(qb)
  /\ UNCHANGED res

QNext ==
  \/ Where \/ OrWhere \/ WhereIn \/ WhereNotIn \/ WhereBetween \/ WhereNull
  \/ Nest \/ OrNest \/ WhereExists \/ Having \/ Limit \/ Offset \/ RemoveLimit
  \/ Union \/ WithCte \/ AddSelectSubquery \/ Case \/ OrderBy \/ GroupBy \/ Join
  \/ Distinct \/ Paginate \/ AsCount \/ Clone \/ Update \/ RemoveFirstCondition

Spec == QInit /\ [][QNext]_vars


(***************************************************************************)
(* The bulk preloader (database/BulkPreloader.py).                         *)
(*                                                                         *)
(* The application it runs in: two model classes with the columns id       *)
(* (primary key) and pid (nullable), M1 on database class DbA and M2 on    *)
(* database class DbB, each database holding the table of its model.       *)
(* Both classes declare the relationships                                  *)
(*   a = has_many(M1, foreign_key = pid, local_key = id)                   *)
(*   c = has_many(M2, foreign_key = pid, local_key = pid)                  *)
(*   b = belongs_to(M2, foreign_key = pid, owner_key = id)                 *)
(*   g = has_one_through(M2, M1, first_key = pid, second_key = pid)        *)
(* A dotted path is the sequence of its segments, so that split('.') and   *)
(* '.'.join are the identity and concatenation of sequences.  The column   *)
(* keys are undotted, for which _field_from_key returns the key itself.    *)
(***************************************************************************)
ModelClasses == {"M1", "M2"}
RelNames == {"a", "b", "c", "g"}

\* __database__ and __table__ of a model class; the table a database holds.
DatabaseOf(cls) == IF cls = "M1" THEN "DbA" ELSE "DbB"
TableOf(cls) == IF cls = "M1" THEN "m1" ELSE "m2"
TableIn(db) == IF db = "DbA" THEN "m1" ELSE "m2"

\* f"{related_table}.{key}"
Qualified(table, key) ==
  IF table = "m1" THEN (IF key = "pid" THEN "m1.pid" ELSE "m1.id")
  ELSE (IF key = "pid" THEN "m2.pid" ELSE "m2.id")

Truthy(v) == v # None /\ v # 0

\* A model instance: its class, its row, its __with__ and its '_<rel>_cache'
\* attributes (set tells whether the attribute exists).
NoCache == [r \in RelNames |-> [set |-> FALSE, objs |-> <<>>]]
ActiveRecord(cls, row) == [cls |-> cls, data |-> row, with_ |-> <<>>, cache |-> NoCache]

hydrate_results(cls, rows) == [i \in DOMAIN rows |-> ActiveRecord(cls, rows[i])]

\* A fresh query on a model: its builder and its own database instance
\* (self.db = self.__database__()); id tells the instances apart.
new_query(model) ==
  [q |-> [NewBuilder("ActiveRecord", "mysql") EXCEPT !.table = <<T(TableOf(model))>>],
   rel_cls |-> model,
   db |-> [cls |-> DatabaseOf(model), id |-> "None"],
   marker |-> "None", owner_key |-> "None", foreign_key |-> "None",
   through |-> "None", first_key |-> "None", second_key |-> "None",
   through_owner_key |-> "None", target_owner_key |-> "None"]

mark_relationship(query, rel_type, owner_key, foreign_key) ==
  [query EXCEPT !.marker = IF @ = "has_one_through" THEN @ ELSE rel_type,
                !.owner_key = owner_key, !.foreign_key = foreign_key]

has_many(self, model, foreign_key, local_key) ==
  LET query == [new_query(model) EXCEPT
                  !.q = where(@, Qualified(TableOf(model), foreign_key), self.data[local_key])]
  IN mark_relationship(query, "has_many", local_key, foreign_key)

belongs_to(self, model, foreign_key, owner_key) ==
  LET query == [new_query(model) EXCEPT
                  !.q = where(@, Qualified(TableOf(model), owner_key), self.data[foreign_key])]
  IN mark_relationship(query, "belongs_to", owner_key, foreign_key)

has_one_through(self, through, model, first_key, second_key) ==
  LET query == [new_query(model) EXCEPT
                  !.marker = "has_one_through", !.through = through,
                  !.first_key = first_key, !.second_key = second_key,
                  !.through_owner_key = "id", !.target_owner_key = "id"]
  IN mark_relationship(query, "one", first_key, second_key)

\* getattr(model, relationship)(): the relationship methods of the classes.
Relationship(self, rel) ==
  LET query == CASE rel = "a" -> has_many(self, "M1", "pid", "id")
                 [] rel = "c" -> has_many(self, "M2", "pid", "pid")
                 [] rel = "b" -> belongs_to(self, "M2", "pid", "id")
                 [] rel = "g" -> has_one_through(self, "M2", "M1", "pid", "pid")
  IN [query EXCEPT !.db.id = rel]

get_relationship_type(fn) ==
  IF fn.marker = "has_one_through" THEN "through"
  ELSE IF fn.marker \in {"has_one", "belongs_to"} THEN "one"
  ELSE "many"

(***************************************************************************)
(* The database: cursor.execute binds the parameters to the placeholders   *)
(* by position over the whole text, then runs each statement on the table  *)
(* of the database the instance's class connects to.                       *)
(***************************************************************************)
Bind(toks, params) ==
  [i \in DOMAIN toks |->
     IF IsPH(toks[i])
     THEN [txt |-> "lit", val |-> params[CountPlaceholders(SubSeq(toks, 1, i))]]
     ELSE toks[i]]

IndexOf(toks, s) ==
  LET hits == {i \in DOMAIN toks : toks[i].txt = s}
  IN IF hits = {} THEN 0 ELSE CHOOSE i \in hits : \A k \in hits : i <= k

RECURSIVE SplitOn(_, _)
SplitOn(toks, sep) ==
  LET i == IndexOf(toks, sep)
  IN IF i = 0 THEN <<toks>>
     ELSE <<SubSeq(toks, 1, i - 1)>> \o SplitOn(SubSeq(toks, i + 1, Len(toks)), sep)

StmtTable(stmt) == stmt[IndexOf(stmt, "FROM") + 1].txt

StmtConds(stmt) ==
  LET w == IndexOf(stmt, "WHERE")
  IN IF w = 0 THEN <<>> ELSE SplitOn(SubSeq(stmt, w + 1, Len(stmt)), "AND")

\* 'col IN (v, ...)' and the raw '1 = 0'; NULL equals nothing.
CondHolds(row, c) ==
  IF c[1].txt = "1 = 0" THEN FALSE
  ELSE \E k \in DOMAIN c : c[k].txt = "lit" /\ c[k].val # None /\ row[c[1].txt] = c[k].val

\* 'IN ()' is not SQL.
SyntaxError(stmt) ==
  \E i \in 1 .. Len(stmt) - 1 : stmt[i].txt = "(" /\ stmt[i + 1].txt = ")"

\* The rows of the table the conditions of a statement hold for.
Select(rows, conds) ==
  LET Test(row) == \A k \in DOMAIN conds : CondHolds(row, conds[k])
  IN SelectSeq(rows, Test)

ResultSets(db, stmts, tb) ==
  IF \E i \in DOMAIN stmts : SyntaxError(stmts[i]) \/ StmtTable(stmts[i]) # TableIn(db)
  THEN [err |-> "ProgrammingError", sets |-> <<>>]
  ELSE [err |-> "", sets |-> [i \in DOMAIN stmts |-> Select(tb[db], StmtConds(stmts[i]))]]

execute(db, toks, params, tb) ==
  IF CountPlaceholders(toks) # Len(params)
  THEN [err |-> "ProgrammingError", sets |-> <<>>]
  ELSE ResultSets(db, SplitOn(Bind(toks, params), ";"), tb)

\* MySqlDatabase.query(builder): one statement, its rows.
FetchAll(r) == [err |-> r.err, rows |-> IF r.err = "" THEN r.sets[1] ELSE <<>>]

db_query(db_instance, q, tb) == FetchAll(execute(db_instance.cls, to_sql(q), q.parameters, tb))

\* MySqlDatabase.pquery(queries, *args): queries is a list of {key: sql}; the
\* i-th result set goes to the i-th key.
KeyedSets(qset, r) ==
  [err |-> r.err,
   results |-> [i \in DOMAIN r.sets |-> [key |-> qset[i].key, rows |-> r.sets[i]]]]

Statements(qset) == [i \in DOMAIN qset |-> qset[i].sql]

pquery(db_instance, qset, params, tb) ==
  IF CountPlaceholders(Flatten(Statements(qset))) # Len(params)
  THEN [err |-> "ValueError", results |-> <<>>]
  ELSE KeyedSets(qset, execute(db_instance.cls, JoinToks(Statements(qset), ";"), params, tb))

\* One entry of the log of queries: the method, the database, the statements.
Sent(method, db, n) == [method |-> method, db |-> db, n |-> n]

(***************************************************************************)
(* Query construction                                                      *)
(***************************************************************************)
Column(ms, key) == [i \in DOMAIN ms |-> ms[i].data[key]]

build_many_query(ms, rel_query, fk_field, owner_field) ==
  LET ids == SelectSeq(Column(ms, owner_field), Truthy)
  IN where_in(remove_first_condition(rel_query.q), fk_field,
              IF ids = <<>> THEN <<ms[1].data[fk_field]>> ELSE ids)

build_one_or_belongs_to_query(ms, rel_query, fk_field, owner_field) ==
  LET NotNone(v) == v # None
      parent_fk_values == SelectSeq(Column(ms, fk_field), NotNone)
  IN IF parent_fk_values = <<>>
     THEN where_raw(remove_first_condition(rel_query.q), "1 = 0")
     ELSE where_in(remove_first_condition(rel_query.q), owner_field, parent_fk_values)

\* through_model().where_in(through_owner_key, fk_values).all(): the lookup
\* of the through records, a query of its own.
through_records(ms, rel_query, tb) ==
  LET through == new_query(rel_query.through)
  IN db_query(through.db,
              where_in(through.q, rel_query.through_owner_key, Column(ms, rel_query.first_key)),
              tb)

ThroughQuery(rel_query, found) ==
  [q |-> where_in(rel_query.q, rel_query.target_owner_key,
                  SelectSeq([i \in DOMAIN found.rows |-> found.rows[i][rel_query.second_key]],
                            Truthy)),
   fk_field |-> rel_query.target_owner_key,
   err |-> found.err]

build_through_query(ms, rel_query, tb) ==
  ThroughQuery(rel_query, through_records(ms, rel_query, tb))

\* parse_withs: the tree is an insertion-ordered dict, here the sequence of
\* its items [key, sub].
RECURSIVE setdefault(_, _)
setdefault(node, parts) ==
  IF parts = <<>> THEN node
  ELSE LET i == IndexOf([k \in DOMAIN node |-> [txt |-> node[k].key]], Head(parts))
       IN IF i = 0
          THEN Append(node, [key |-> Head(parts), sub |-> setdefault(<<>>, Tail(parts))])
          ELSE [node EXCEPT ![i].sub = setdefault(@, Tail(parts))]

RECURSIVE parse_withs(_)
parse_withs(ws) ==
  IF ws = <<>> THEN <<>>
  ELSE setdefault(parse_withs(SubSeq(ws, 1, Len(ws) - 1)), ws[Len(ws)])

\* queries.append({...}) and join_meta.append({...})
Built(relationship, nested, rel_query, rel_type, bulk_query, fk_field, owner_field, log, err) ==
  [query |-> [key |-> relationship, sql |-> to_sql(bulk_query),
              db |-> rel_query.db.cls, params |-> bulk_query.parameters,
              db_instance |-> rel_query.db],
   meta |-> [rel |-> relationship, rel_type |-> rel_type, rel_cls |-> rel_query.rel_cls,
             fk_field |-> fk_field, owner_key |-> owner_field, nested_withs |-> nested],
   log |-> log,
   err |-> err]

BuiltThrough(relationship, nested, rel_query, through) ==
  Built(relationship, nested, rel_query, "through", through.q, through.fk_field, "None",
        <<Sent("query", DatabaseOf(rel_query.through), 1)>>, through.err)

\* One turn of the loop of _build_queries, for the rel_query of the relationship.
BuildFor(ms, relationship, nested, rel_query, tb) ==
  IF get_relationship_type(rel_query) = "many"
  THEN Built(relationship, nested, rel_query, "many",
             build_many_query(ms, rel_query, rel_query.foreign_key, rel_query.owner_key),
             rel_query.foreign_key, rel_query.owner_key, <<>>, "")
  ELSE IF get_relationship_type(rel_query) = "through"
  THEN BuiltThrough(relationship, nested, rel_query, build_through_query(ms, rel_query, tb))
  ELSE Built(relationship, nested, rel_query, "one",
             build_one_or_belongs_to_query(ms, rel_query, rel_query.foreign_key,
                                           rel_query.owner_key),
             rel_query.foreign_key, rel_query.owner_key, <<>>, "")

BuildQuery(ms, relationship, nested, tb) ==
  BuildFor(ms, relationship, nested, Relationship(ms[1], relationship), tb)

Collect(acc, one) ==
  [queries |-> Append(acc.queries, one.query),
   join_meta |-> Append(acc.join_meta, one.meta),
   log |-> acc.log \o one.log,
   err |-> one.err]

RECURSIVE BuildLoop(_, _, _, _)
BuildLoop(acc, ms, tree, tb) ==
  IF tree = <<>> \/ acc.err # "" THEN acc
  ELSE BuildLoop(Collect(acc, BuildQuery(ms, Head(tree).key, Head(tree).sub, tb)),
                 ms, Tail(tree), tb)

build_queries(ms, ws, tb) ==
  BuildLoop([queries |-> <<>>, join_meta |-> <<>>, log |-> <<>>, err |-> ""],
            ms, parse_withs(ws), tb)

(***************************************************************************)
(* Execution: one pquery per database class name, on the database instance *)
(* of the first query of that name.                                        *)
(***************************************************************************)
BatchParamsReversed(group) ==
  Flatten([i \in DOMAIN group |-> group[Len(group) + 1 - i].params])

BatchParams(group) == Flatten([i \in DOMAIN group |-> group[i].params])

QSet(group) == [i \in DOMAIN group |-> [key |-> group[i].key, sql |-> group[i].sql]]

Executed(acc, group, params, r) ==
  [results |-> acc.results \o r.results,
   batches |-> Append(acc.batches,
                      [db_instance |-> group[1].db_instance, group |-> group,
                       params |-> params, err |-> r.err, results |-> r.results]),
   log |-> Append(acc.log, Sent("pquery", group[1].db_instance.cls, Len(group))),
   err |-> r.err]

\* One turn of the loop over the database names: group holds its queries.
ExecBatch(acc, group, params, tb) ==
  Executed(acc, group, params, pquery(group[1].db_instance, QSet(group), params, tb))

RECURSIVE ExecLoop(_, _, _, _)
ExecLoop(acc, qs, databases, tb) ==
  IF databases = <<>> \/ acc.err # "" THEN acc
  ELSE LET InDb(q) == q.db = Head(databases)
       IN ExecLoop(ExecBatch(acc, SelectSeq(qs, InDb), BatchParams(SelectSeq(qs, InDb)), tb),
                   qs, Tail(databases), tb)

execute_pqueries(qs, databases, tb) ==
  ExecLoop([results |-> <<>>, batches |-> <<>>, log |-> <<>>, err |-> ""],
           qs, databases, tb)

\* list({q["db"] for q in queries}): the names in an order the set decides.
DbNames(qs) == {qs[i].db : i \in DOMAIN qs}
DbOrders(qs) ==
  {o \in [1 .. Cardinality(DbNames(qs)) -> DbNames(qs)] :
     \A i, j \in DOMAIN o : i # j => o[i] # o[j]}

\* The order of first appearance, for the runs on nested records: the
\* results are keyed by relationship and do not depend on the order.
FirstSeen(qs) ==
  LET dbs == [i \in DOMAIN qs |-> qs[i].db]
  IN DropIdx(dbs, {i \in DOMAIN dbs : \E j \in 1 .. i - 1 : dbs[j] = dbs[i]})

\* _normalize_results: the list of {key: rows} as one dict.
normalize_results(pquery_results) ==
  [key \in {pquery_results[i].key : i \in DOMAIN pquery_results} |->
     LET last_i == CHOOSE i \in DOMAIN pquery_results :
                     /\ pquery_results[i].key = key
                     /\ \A j \in DOMAIN pquery_results :
                          pquery_results[j].key = key => j <= i
     IN pquery_results[last_i].rows]

(***************************************************************************)
(* Hydration and assignment.  A run is [models, log, err]: the records     *)
(* with the caches set so far, the queries sent so far, the exception.     *)
(***************************************************************************)
\* type(key)(value): NoneType takes no argument and int() takes no None.
CastError(key, value) == key = None \/ value = None

\* next((r for r in hydrated if key_type(r[col]) == key), None)
RECURSIVE FirstMatch(_, _, _)
FirstMatch(hydrated, col, key) ==
  IF hydrated = <<>> THEN [err |-> "", objs |-> <<>>]
  ELSE IF CastError(key, Head(hydrated).data[col]) THEN [err |-> "TypeError", objs |-> <<>>]
  ELSE IF Head(hydrated).data[col] = key THEN [err |-> "", objs |-> <<Head(hydrated)>>]
  ELSE FirstMatch(Tail(hydrated), col, key)

\* The __with__ given to the related records:
\* [k if not v else f"{k}.{'.'.join(v.keys())}" for k, v in nested.items()]
nested_with(nested) ==
  [i \in DOMAIN nested |->
     IF nested[i].sub = <<>> THEN <<nested[i].key>>
     ELSE <<nested[i].key>> \o [k \in DOMAIN nested[i].sub |-> nested[i].sub[k].key]]

RECURSIVE run(_, _, _)
RECURSIVE AssignLoop(_, _, _, _, _, _)

\* if nested and related: set __with__, BulkPreloader(ModelCollection(related)).run()
Preload(related, nested, tb) ==
  IF nested # <<>> /\ related # <<>>
  THEN LET marked == [i \in DOMAIN related |->
                        [related[i] EXCEPT !.with_ = nested_with(nested)]]
       IN run(marked, marked[1].with_, tb)
  ELSE [models |-> related, log |-> <<>>, err |-> ""]

\* setattr(model, f"_{rel}_cache", related), the related records as the
\* nested run left them.
SetCache(st, i, rel, sub) ==
  [models |-> [st.models EXCEPT ![i].cache[rel] = [set |-> TRUE, objs |-> sub.models]],
   log |-> st.log \o sub.log,
   err |-> sub.err]

AssignMany(st, i, meta, hydrated, tb) ==
  LET pk == st.models[i].data[meta.owner_key]
      Own(r) == r.data[meta.fk_field] = pk
  IN IF \E k \in DOMAIN hydrated : CastError(pk, hydrated[k].data[meta.fk_field])
     THEN [st EXCEPT !.err = "TypeError"]
     ELSE SetCache(st, i, meta.rel, Preload(SelectSeq(hydrated, Own), meta.nested_withs, tb))

\* A has-one record, found or not: match is what FirstMatch returned.
AssignMatch(st, i, meta, match, tb) ==
  IF match.err # "" THEN [st EXCEPT !.err = match.err]
  ELSE SetCache(st, i, meta.rel, Preload(match.objs, meta.nested_withs, tb))

\* through_lookup.get(getattr(model, first_key)), then the target record.
ThroughMatch(st, i, meta, hydrated, rel_query, found, tb) ==
  LET hit == {k \in DOMAIN found.rows :
                found.rows[k][rel_query.through_owner_key]
                  = st.models[i].data[rel_query.first_key]}
      through_value == found.rows[CHOOSE k \in hit : \A j \in hit : j <= k]
  IN IF found.err # "" THEN [st EXCEPT !.err = found.err]
     ELSE AssignMatch(st, i, meta,
                      IF hit = {} THEN [err |-> "", objs |-> <<>>]
                      ELSE FirstMatch(hydrated, rel_query.target_owner_key,
                                      through_value[rel_query.second_key]),
                      tb)

\* The through records are looked up again for every model of the loop.
ThroughLookup(st, i, meta, hydrated, rel_query, tb) ==
  ThroughMatch([st EXCEPT !.log = Append(@, Sent("query", DatabaseOf(rel_query.through), 1))],
               i, meta, hydrated, rel_query, through_records(st.models, rel_query, tb), tb)

AssignThrough(st, i, meta, hydrated, tb) ==
  ThroughLookup(st, i, meta, hydrated, Relationship(st.models[i], meta.rel), tb)

AssignOne(st, i, meta, hydrated, tb) ==
  IF ~Truthy(st.models[i].data[meta.fk_field]) THEN st
  ELSE AssignMatch(st, i, meta,
                   FirstMatch(hydrated, meta.owner_key, st.models[i].data[meta.fk_field]), tb)

\* The body of the two loops of _assign_results, for model i and one meta.
Assign(st, i, meta, rel_results, tb) ==
  IF meta.rel \notin DOMAIN rel_results
  THEN [st EXCEPT !.models[i].cache[meta.rel] = [set |-> TRUE, objs |-> <<>>]]
  ELSE LET hydrated == hydrate_results(meta.rel_cls, rel_results[meta.rel])
       IN IF meta.rel_type = "many" THEN AssignMany(st, i, meta, hydrated, tb)
          ELSE IF meta.rel_type = "through" THEN AssignThrough(st, i, meta, hydrated, tb)
          ELSE AssignOne(st, i, meta, hydrated, tb)

AssignLoop(st, i, j, rel_results, metas, tb) ==
  IF st.err # "" \/ i > Len(st.models) THEN st
  ELSE IF j > Len(metas) THEN AssignLoop(st, i + 1, 1, rel_results, metas, tb)
  ELSE AssignLoop(Assign(st, i, metas[j], rel_results, tb), i, j + 1, rel_results, metas, tb)

assign_results(st, rel_results, metas, tb) == AssignLoop(st, 1, 1, rel_results, metas, tb)

RunExecuted(ms, b, e, tb) ==
  IF e.err # "" THEN [models |-> ms, log |-> b.log \o e.log, err |-> e.err]
  ELSE assign_results([models |-> ms, log |-> b.log \o e.log, err |-> ""],
                      normalize_results(e.results), b.join_meta, tb)

RunBuilt(ms, b, tb) ==
  IF b.err # "" \/ b.queries = <<>> THEN [models |-> ms, log |-> b.log, err |-> b.err]
  ELSE RunExecuted(ms, b, execute_pqueries(b.queries, FirstSeen(b.queries), tb), tb)

run(ms, ws, tb) ==
  IF ms = <<>> \/ ws = <<>> THEN [models |-> ms, log |-> <<>>, err |-> ""]
  ELSE RunBuilt(ms, build_queries(ms, ws, tb), tb)

(***************************************************************************)
(* run() as a state machine: _build_queries, _execute_pqueries, then       *)
(* _normalize_results and _assign_results.                                 *)
(***************************************************************************)
Ids == 1 .. MaxRows
Rows == [id : Ids, pid : {None} \cup Ids]
Tables == {t \in [Ids -> Rows] : \A i \in Ids : t[i].id = i}

\* The with-lists the runs are started with.
WithLists ==
  { <<>>,
    << <<"a">> >>, << <<"b">> >>, << <<"c">> >>, << <<"g">> >>,
    << <<"a">>, <<"b">>, <<"g">>, <<"c">> >>,
    << <<"b">>, <<"a">> >>,
    << <<"a", "a">>, <<"a", "c">> >>,
    << <<"b", "a">>, <<"g", "b">> >>,
    << <<"a", "a", "a", "a">> >>,
    << <<"a", "a", "a">>, <<"a", "a", "c">> >> }

\* No builder call is made while the preloader runs.
QIdle ==
  /\ qb = NewBuilder("QueryBuilder", "mysql")
  /\ prev = qb
  /\ qbare = qb
  /\ last = NoCall
  /\ ops = {}
  /\ cl = qb
  /\ res = NoResult
  /\ ncalls = 0

BPInit ==
  /\ tables \in [{"DbA", "DbB"} -> Tables]
  /\ \E ids \in (SUBSET Ids) \ {{}} :
       LET Chosen(row) == row.id \in ids
       IN models = hydrate_results("M1", SelectSeq(tables["DbA"], Chosen))
  /\ withs \in WithLists
  /\ pc = "start"
  /\ queries = <<>>
  /\ join_meta = <<>>
  /\ raw_results = <<>>
  /\ batches = <<>>
  /\ qlog = <<>>
  /\ raised = ""
  /\ QIdle
  /\ ARIdle
  /\ ToolsIdle

BuildQueries ==
  /\ pc = "start"
  /\ \E b \in {build_queries(models, withs, tables)} :
        IF models = <<>> \/ withs = <<>>
        THEN /\ pc' = "done"
             /\ UNCHANGED <<queries, join_meta, qlog, raised>>
        ELSE /\ queries' = b.queries
             /\ join_meta' = b.join_meta
             /\ qlog' = b.log
             /\ raised' = b.err
             /\ pc' = IF b.err # "" THEN "raised"
                      ELSE IF b.queries = <<>> THEN "done" ELSE "built"
  /\ UNCHANGED <<tables, models, withs, raw_results, batches>>
  /\ UNCHANGED <<qvars, arvars, toolvars>>

ExecutePqueries ==
  /\ pc = "built"
  /\ \E databases \in DbOrders(queries) :
       \E e \in {execute_pqueries(queries, databases, tables)} :
          /\ raw_results' = e.results
          /\ batches' = e.batches
          /\ qlog' = qlog \o e.log
          /\ raised' = e.err
          /\ pc' = IF e.err # "" THEN "raised" ELSE "executed"
  /\ UNCHANGED <<tables, models, withs, queries, join_meta>>
  /\ UNCHANGED <<qvars, arvars, toolvars>>

AssignResults ==
  /\ pc = "executed"
  /\ \E a \in {assign_results([models |-> models, log |-> qlog, err |-> ""],
                               normalize_results(raw_results), join_meta, tables)} :
        /\ models' = a.models
        /\ qlog' = a.log
        /\ raised' = a.err
        /\ pc' = IF a.err # "" THEN "raised" ELSE "done"
  /\ UNCHANGED <<tables, withs, queries, join_meta, raw_results, batches>>
  /\ UNCHANGED <<qvars, arvars, toolvars>>

BPNext == BuildQueries \/ ExecutePqueries \/ AssignResults

SpecBP == BPInit /\ [][BPNext]_vars


(***************************************************************************)
(* ActiveRecord: a model class M on table t, with the columns id (the      *)
(* primary key), s and v, the mysql driver, and __with__ = ["a"] in its    *)
(* declaration.  A with-list is kept as the set of its paths:              *)
(* expand_withs returns its result in set order.  A retrieval records the  *)
(* with-list its BulkPreloader is built with; the preload itself is the    *)
(* state machine above.                                                    *)
(***************************************************************************)
DefaultWith == {<<"a">>}

\* getattr(target, "_with_overrides", None): unset, or a with-list.
NoOverrides == [set |-> FALSE, withs |-> {}]

NoRow == [id |-> None, s |-> None, v |-> None]

\* ActiveRecord.__init__(**row): a fresh builder, __data__ filled from the row.
\* "origin" remembers the call that made the object.
Model(row, origin) ==
  [kind |-> "model", data |-> row, q |-> NewBuilder("ActiveRecord", "mysql"),
   with_events |-> FALSE, overrides |-> NoOverrides, origin |-> origin]

NoneObj == [Model(NoRow, "none") EXCEPT !.kind = "None"]

\* Every path and every proper prefix of every path.
expand_withs(ws) == UNION {{SubSeq(w, 1, i) : i \in 1 .. Len(w)} : w \in ws}

\* The instance attribute when set, else the class attribute.
with_overrides(target, co) == IF target.overrides.set THEN target.overrides ELSE co

with_(target, ws, cw, co) ==
  LET ov == with_overrides(target, co)
  IN [target EXCEPT !.overrides =
        [set |-> TRUE, withs |-> expand_withs((IF ov.withs # {} THEN ov.withs ELSE cw) \cup ws)]]

resolve_withs(target, cw, co) ==
  LET ov == with_overrides(target, co) IN IF ov.set THEN ov.withs ELSE cw

\* find/first/all: the preloader runs when __with__ or _with_overrides is
\* not empty, with the with-list _resolve_withs gives it.
Preload_withs(target, cw, co) ==
  IF cw # {} \/ with_overrides(target, co).withs # {}
  THEN resolve_withs(target, cw, co) ELSE {}

(***************************************************************************)
(* Events                                                                  *)
(***************************************************************************)
ListenerEvents == {"updating", "saving", "updated", "saved", "retrieved", "__all__"}
Callbacks == {"f", "g"}
Priorities == 0 .. MaxPriority

NoListeners == [e \in ListenerEvents |-> <<>>]

\* list.sort(key = priority, reverse = True): stable.
SortByPriority(registered) ==
  Flatten([k \in 1 .. MaxPriority + 1 |->
             LET Is(pair) == pair.priority = MaxPriority + 1 - k
             IN SelectSeq(registered, Is)])

on(ls, event_name, callback, priority) ==
  LET pair == [priority |-> priority, callback |-> callback]
  IN IF \E i \in DOMAIN ls[event_name] : ls[event_name][i] = pair THEN ls
     ELSE [ls EXCEPT ![event_name] = SortByPriority(Append(@, pair))]

\* One entry of the trace of a call: an event with the listeners called, in
\* the order called, or a statement sent to the database.
Fired(event_name, target, calls) ==
  [kind |-> "event", name |-> event_name, target |-> target.data.id, calls |-> calls,
   sql |-> <<>>, params |-> <<>>, err |-> ""]

Stmt(toks, params, r) ==
  [kind |-> "sql", name |-> toks[1].txt, target |-> None, calls |-> <<>>,
   sql |-> toks, params |-> params, err |-> r.err]

\* fire_event: the listeners of the event, then those of "__all__".  The
\* instance method of the event's name is the empty default.
fire_event(ls, event_name, target) ==
  Fired(event_name, target, ls[event_name] \o ls["__all__"])

(***************************************************************************)
(* The database of M: cursor.execute binds the parameters by position and  *)
(* runs the statement on the table, whose rows are in primary-key order.   *)
(***************************************************************************)
ARConds(stmt) ==
  LET w == IndexOf(stmt, "WHERE")
      ends == {i \in DOMAIN stmt : i > w /\ stmt[i].txt \in {"ORDER BY", "LIMIT"}}
  IN IF w = 0 THEN <<>>
     ELSE SplitOn(SubSeq(stmt, w + 1,
                         IF ends = {} THEN Len(stmt)
                         ELSE (CHOOSE i \in ends : \A k \in ends : i <= k) - 1), "AND")

Limited(stmt, hit) ==
  LET i == IndexOf(stmt, "LIMIT")
  IN IF i = 0 \/ stmt[i + 1].val >= Len(hit) THEN hit ELSE SubSeq(hit, 1, stmt[i + 1].val)

\* SET `col` = value, ...
Assignments(stmt) ==
  SplitOn(SubSeq(stmt, IndexOf(stmt, "SET") + 1, IndexOf(stmt, "WHERE") - 1), ",")

Assigned(row, col, sets) ==
  LET hits == {i \in DOMAIN sets : sets[i][2].txt = col}
  IN IF hits = {} THEN row[col] ELSE sets[CHOOSE i \in hits : \A k \in hits : k <= i][5].val

UpdateRows(tb, conds, sets) ==
  [i \in DOMAIN tb |->
     IF \A k \in DOMAIN conds : CondHolds(tb[i], conds[k])
     THEN [col \in DOMAIN tb[i] |-> Assigned(tb[i], col, sets)]
     ELSE tb[i]]

\* rowcount of an UPDATE: the rows it changed.
Executed_(tb, after, fetched) ==
  [err |-> "", rows |-> fetched, table |-> after,
   rowcount |-> Cardinality({i \in DOMAIN tb : tb[i] # after[i]})]

RunStmt(stmt, tb) ==
  IF stmt[1].txt = "UPDATE"
  THEN Executed_(tb, UpdateRows(tb, ARConds(stmt), Assignments(stmt)), <<>>)
  ELSE Executed_(tb, tb, Limited(stmt, Select(tb, ARConds(stmt))))

\* MySqlDatabase.query(sql, params)
ar_query(toks, params, tb) ==
  IF CountPlaceholders(toks) # Len(params)
  THEN [err |-> "ProgrammingError", rows |-> <<>>, table |-> tb, rowcount |-> 0]
  ELSE RunStmt(Bind(toks, params), tb)

(***************************************************************************)
(* Retrieval                                                               *)
(***************************************************************************)
\* A retrieval that finds no row returns None before the preloader is built
\* ("ran" tells whether it was built).
\* _hydrate_results: one model per row, "retrieved" fired for each.
Hydrated(ls, fetched, origin) ==
  [i \in DOMAIN fetched |-> fire_event(ls, "retrieved", Model(fetched[i], origin))]

\* The record handed back: it carries the conditions and the parameters of
\* the query that found it.
Record(row, q, origin) ==
  [Model(row, origin) EXCEPT !.q.conditions = q.conditions, !.q.parameters = q.parameters]

Retrieved(target, q, r, ls, origin, twice) ==
  IF r.err # "" \/ r.rows = <<>>
  THEN [obj |-> IF r.err # "" THEN [target EXCEPT !.q = q] ELSE NoneObj,
        trace |-> <<Stmt(to_sql(q), q.parameters, r)>>, err |-> r.err, ran |-> FALSE]
  ELSE [obj |-> Record(r.rows[1], q, origin), ran |-> TRUE,
        trace |-> <<Stmt(to_sql(q), q.parameters, r)>> \o Hydrated(ls, r.rows, origin)
                  \o (IF twice THEN <<fire_event(ls, "retrieved", Model(r.rows[1], origin))>>
                      ELSE <<>>),
        err |-> r.err]

\* rows = self.db.query(self), then the hydration.
Fetch(target, q, tb, ls, origin, twice) ==
  Retrieved(target, q, ar_query(to_sql(q), q.parameters, tb), ls, origin, twice)

\* find(id): where(primary key, "=", id) on the query itself, the first row.
find(target, id, tb, ls) == Fetch(target, where(target.q, "id", id), tb, ls, "find", FALSE)

\* first(): order_by(primary key).limit(1) on the query itself; "retrieved"
\* is fired once more for the record.
first(target, tb, ls) ==
  Fetch(target, limit(order_by(target.q, "id", "asc"), 1), tb, ls, "first", TRUE)

(***************************************************************************)
(* update                                                                  *)
(***************************************************************************)
clone_without_columns_or_ordering(q) ==
  [NewBuilder(q.cls, q.driver) EXCEPT
     !.conditions = q.conditions, !.parameters = q.parameters,
     !.having_conditions = q.having_conditions, !.group_by_columns = q.group_by_columns,
     !.joins = q.joins, !.ctes = q.ctes, !.unions = q.unions,
     !.limit_count = q.limit_count, !.limit_val = q.limit_val,
     !.offset_count = q.offset_count, !.offset_val = q.offset_val,
     !.rows_fetch = q.rows_fetch, !.fetch_val = q.fetch_val,
     !.distinct_flag = q.distinct_flag]

\* hasattr(self, "__data__"): __init__ gives every ActiveRecord object one.
hasattr_data(target) == target.kind = "model"

\* values without the primary key.
WithoutKey(values) ==
  LET NotKey(kv) == kv.k # "id" IN SelectSeq(values, NotKey)

\* self.__data__[key] = value for every key of values.
SetData(data, values) ==
  [col \in DOMAIN data |->
     LET hits == {i \in DOMAIN values : values[i].k = col}
     IN IF hits = {} THEN data[col]
        ELSE values[CHOOSE i \in hits : \A k \in hits : k <= i].v]

Outcome(target, tb, tr, ret, err) ==
  [obj |-> target, table |-> tb, trace |-> tr, ret |-> ret, err |-> err, ran |-> FALSE]

Raise(target, tb, tr, err) == Outcome(target, tb, tr, [kind |-> "raise", val |-> None], err)

\* return self.clone_without_columns_or_ordering().where(pk, primary_key).first()
Refetched(target, tb, tr, f) ==
  IF f.err # "" THEN Raise(target, tb, tr \o f.trace, f.err)
  ELSE [Outcome(target, tb, tr \o f.trace, [kind |-> f.obj.kind, val |-> f.obj.data.id], "")
          EXCEPT !.ran = f.ran]

InstanceSent(target, ls, tr, r) ==
  IF r.err # "" THEN Raise(target, r.table, tr, r.err)
  ELSE Refetched(target, r.table,
                 tr \o <<fire_event(ls, "updated", target), fire_event(ls, "saved", target)>>,
                 first([Model(NoRow, "new") EXCEPT
                          !.q = where(clone_without_columns_or_ordering(target.q),
                                      "id", target.data.id)],
                       r.table, ls))

InstanceQueried(target, ls, tr, u, r) ==
  InstanceSent(target, ls, tr \o <<Stmt(u.sql, u.params, r)>>, r)

InstanceBuilt(target, tb, ls, tr, u) ==
  IF u.err # "" THEN Raise(target, tb, tr, u.err)
  ELSE InstanceQueried(target, ls, tr, u, ar_query(u.sql, u.params, tb))

InstanceUpdate(target, values, tb, ls) ==
  InstanceBuilt(target, tb, ls,
                <<fire_event(ls, "updating", target), fire_event(ls, "saving", target)>>,
                update(target.q, values))

\* The bulk update with events: one UPDATE per row of the query, keyed by
\* the primary key, between the row's events.
RowUpdate(acc, row, values, ls, u, r) ==
  IF acc.err # "" THEN acc
  ELSE IF u.err # "" \/ r.err # ""
  THEN [acc EXCEPT !.err = IF u.err # "" THEN u.err ELSE r.err,
                   !.trace = @ \o <<fire_event(ls, "updating", Model(SetData(row, values), "row")),
                                    fire_event(ls, "saving", Model(SetData(row, values), "row"))>>]
  ELSE [err |-> "", table |-> r.table, affected |-> acc.affected + r.rowcount,
        trace |-> acc.trace
                  \o <<fire_event(ls, "updating", Model(SetData(row, values), "row")),
                       fire_event(ls, "saving", Model(SetData(row, values), "row")),
                       Stmt(u.sql, u.params, r),
                       fire_event(ls, "updated", Model(SetData(row, values), "row")),
                       fire_event(ls, "saved", Model(SetData(row, values), "row"))>>]

RowBuilt(acc, row, values, ls, u) ==
  RowUpdate(acc, row, values, ls, u,
            IF acc.err # "" \/ u.err # "" THEN [err |-> "", table |-> acc.table, rowcount |-> 0]
            ELSE ar_query(u.sql, u.params, acc.table))

RECURSIVE RowLoop(_, _, _, _)
RowLoop(acc, fetched, values, ls) ==
  IF fetched = <<>> THEN acc
  ELSE RowLoop(RowBuilt(acc, Head(fetched), values, ls,
                        update(where(NewBuilder("ActiveRecord", "mysql"), "id", Head(fetched).id),
                               values)),
               Tail(fetched), values, ls)

BulkLooped(target, tr, acc) ==
  IF acc.err # "" THEN Raise(target, acc.table, tr \o acc.trace, acc.err)
  ELSE Outcome(target, acc.table, tr \o acc.trace, [kind |-> "int", val |-> acc.affected], "")

BulkFetched(target, values, tb, ls, r) ==
  IF r.err # "" THEN Raise(target, tb, <<Stmt(to_sql(target.q), target.q.parameters, r)>>, r.err)
  ELSE BulkLooped(target, <<Stmt(to_sql(target.q), target.q.parameters, r)>>,
                  RowLoop([err |-> "", table |-> tb, affected |-> 0, trace |-> <<>>],
                          r.rows, values, ls))

BulkUpdateWithEvents(target, values, tb, ls) ==
  BulkFetched(target, values, tb, ls, ar_query(to_sql(target.q), target.q.parameters, tb))

\* The fast bulk update: one UPDATE, the parameters equal to 1 filtered out.
FastSent(target, tb, u, params, r) ==
  IF r.err # "" THEN Raise(target, tb, <<Stmt(u.sql, params, r)>>, r.err)
  ELSE Outcome(target, r.table, <<Stmt(u.sql, params, r)>>, [kind |-> "bool", val |-> 1], "")

FastBuilt(target, tb, u, params) ==
  IF u.err # "" THEN Raise(target, tb, <<>>, u.err)
  ELSE FastSent(target, tb, u, params, ar_query(u.sql, params, tb))

FastFiltered(target, tb, u) ==
  LET NotOne(p) == p # 1 IN FastBuilt(target, tb, u, SelectSeq(u.params, NotOne))

FastBulkUpdate(target, values, tb) == FastFiltered(target, tb, update(target.q, values))

\* ActiveRecord.update(values): remove_limit(), the primary key dropped from
\* values, then the branch for the kind of object.
UpdateBranch(target, values, tb, ls) ==
  IF hasattr_data(target)
  THEN InstanceUpdate([target EXCEPT !.data = SetData(@, values)], values, tb, ls)
  ELSE IF target.with_events THEN BulkUpdateWithEvents(target, values, tb, ls)
  ELSE FastBulkUpdate(target, values, tb)

ar_update(target, values, tb, ls) ==
  UpdateBranch([target EXCEPT !.q = remove_limit(@)], WithoutKey(values), tb, ls)

(***************************************************************************)
(* The model class as a state machine.                                     *)
(***************************************************************************)
ARTables == {<<[id |-> 1, s |-> a, v |-> 0], [id |-> 2, s |-> b, v |-> 0]>> :
               a \in 1 .. MaxRows, b \in 1 .. MaxRows}

\* The with-lists handed to with_ and with_only.
WithArgs == {{}, {<<"c">>}, {<<"c", "a">>}}

\* The dicts handed to update().
ARValues == {<<>>, <<[k |-> "v", v |-> 1]>>, <<[k |-> "id", v |-> 2], [k |-> "v", v |-> 1]>>}

NoReturn == [kind |-> "none", val |-> None]

ARInit ==
  /\ trows \in ARTables
  /\ prows = trows
  /\ cls_with = DefaultWith
  /\ cls_overrides = NoOverrides
  /\ listeners = NoListeners
  /\ obj = Model(NoRow, "new")
  /\ pobj = obj
  /\ resolved = {}
  /\ trace = <<>>
  /\ returned = NoReturn
  /\ alast = [op |-> "none", x |-> None, err |-> ""]
  /\ acalls = 0
  /\ QIdle
  /\ BPIdle
  /\ ToolsIdle

ARCall(name, x, err, nobj, nrows, ntrace, nret) ==
  /\ acalls < MaxARCalls
  /\ obj' = nobj
  /\ pobj' = obj
  /\ trows' = nrows
  /\ prows' = trows
  /\ trace' = ntrace
  /\ returned' = nret
  /\ alast' = [op |-> name, x |-> x, err |-> err]
  /\ acalls' = acalls + 1
  /\ UNCHANGED <<qvars, bpvars, toolvars>>

\* M(): a new query.
NewQuery ==
  /\ ARCall("new", None, "", Model(NoRow, "new"), trows, <<>>, NoReturn)
  /\ UNCHANGED <<cls_with, cls_overrides, listeners, resolved>>

\* M.with_only(withs)(): with_only sets _with_overrides and __with__ on the
\* class and returns the class; the query is an instance of it.
WithOnly ==
  /\ \E ws \in WithArgs :
       /\ ARCall("with_only", Cardinality(ws), "", Model(NoRow, "with_only"), trows, <<>>,
                 NoReturn)
       /\ cls_overrides' = [set |-> TRUE, withs |-> ws]
  /\ cls_with' = {}
  /\ UNCHANGED <<listeners, resolved>>

With ==
  /\ obj.kind = "model"
  /\ \E ws \in WithArgs :
       ARCall("with_", Cardinality(ws), "", with_(obj, ws, cls_with, cls_overrides), trows,
              <<>>, NoReturn)
  /\ UNCHANGED <<cls_with, cls_overrides, listeners, resolved>>

ARWhere ==
  /\ obj.kind = "model"
  /\ \E x \in 1 .. MaxRows :
       ARCall("where", x, "", [obj EXCEPT !.q = where(@, "s", x)], trows, <<>>, NoReturn)
  /\ UNCHANGED <<cls_with, cls_overrides, listeners, resolved>>

WithEvents ==
  /\ obj.kind = "model"
  /\ ARCall("with_events", None, "", [obj EXCEPT !.with_events = TRUE], trows, <<>>, NoReturn)
  /\ UNCHANGED <<cls_with, cls_overrides, listeners, resolved>>

On ==
  /\ \E e \in {"updating", "__all__"}, c \in Callbacks, p \in Priorities :
       /\ ARCall("on", p, "", obj, trows, <<>>, NoReturn)
       /\ listeners' = on(listeners, e, c, p)
  /\ UNCHANGED <<cls_with, cls_overrides, resolved>>

Find ==
  /\ obj.kind = "model"
  /\ \E id \in 1 .. MaxRows :
       \E f \in {find(obj, id, trows, listeners)} :
          /\ ARCall("find", id, f.err, f.obj, trows, f.trace, NoReturn)
          /\ resolved' = IF f.ran THEN Preload_withs(obj, cls_with, cls_overrides)
                         ELSE resolved
  /\ UNCHANGED <<cls_with, cls_overrides, listeners>>

First ==
  /\ obj.kind = "model"
  /\ \E f \in {first(obj, trows, listeners)} :
       /\ ARCall("first", None, f.err, f.obj, trows, f.trace, NoReturn)
       /\ resolved' = IF f.ran THEN Preload_withs(obj, cls_with, cls_overrides) ELSE resolved
  /\ UNCHANGED <<cls_with, cls_overrides, listeners>>

ARUpdate ==
  /\ obj.kind = "model"
  /\ \E values \in ARValues :
       \E r \in {ar_update(obj, values, trows, listeners)} :
          /\ ARCall("update", Len(WithoutKey(values)), r.err, r.obj, r.table, r.trace, r.ret)
          \* the record handed back is fetched by a new query of the class
          /\ resolved' = IF r.ran
                         THEN Preload_withs(Model(NoRow, "new"), cls_with, cls_overrides)
                         ELSE resolved
  /\ UNCHANGED <<cls_with, cls_overrides, listeners>>

ARNext ==
  \/ NewQuery \/ WithOnly \/ With \/ ARWhere \/ WithEvents \/ On \/ Find \/ First
  \/ ARUpdate

SpecAR == ARInit /\ [][ARNext]_vars

(***************************************************************************)
(* cli/migrate.py: migrate(dry_run, replay) over the models discovered in  *)
(* lib.  A model is [name, ignore, fields]: ignore is the value of         *)
(* __ignore_migration__ ("absent" when the class has no such attribute),   *)
(* fields the declared fields with their SQL types.                        *)
(***************************************************************************)
ModelNames == <<"A", "B">>

Field(name, sql_type) == [name |-> name, sql_type |-> sql_type]

FieldSets == {{}, {Field("id", "INT")}, {Field("id", "TEXT"), Field("n", "INT")}}

\* dir(cls) lists the attributes by name.
FieldOrder == <<"id", "n">>

IgnoreFlags == {"absent", "true", "false"}

\* discover_models("lib")
DiscoveredLists ==
  UNION {[1 .. n -> [ignore : IgnoreFlags, fields : FieldSets]] : n \in 0 .. MaxModels}

discover_models(lib) ==
  [i \in DOMAIN lib |-> [name |-> ModelNames[i], ignore |-> lib[i].ignore,
                         fields |-> lib[i].fields]]

\* hasattr(model, "__ignore_migration__") and the attribute is truthy.
Ignored(model) == model.ignore = "true"

get_model_schema_snapshot(model) == model.fields

\* A model without a schema file has no saved fields.
load_schema_history(hist, model) == hist[model.name]

get_last_known_fields(saved_schema) == saved_schema

NamesOf(fields) == {f.name : f \in fields}

TypeOf(fields, name) == (CHOOSE f \in fields : f.name = name).sql_type

Change(op, field, sql_type) == [op |-> op, field |-> field, sql_type |-> sql_type]

\* New and modified fields in the order of the model, then the removed ones.
diff_model_to_history(current, last_fields) ==
  LET Current(n) == n \in NamesOf(current)
      Removed(n) == n \in NamesOf(last_fields) /\ n \notin NamesOf(current)
      Differs(n) == n \notin NamesOf(last_fields) \/ Field(n, TypeOf(current, n)) \notin last_fields
      Changed(n) == Current(n) /\ Differs(n)
      now == SelectSeq(FieldOrder, Changed)
      gone == SelectSeq(FieldOrder, Removed)
  IN [i \in DOMAIN now |->
        Change(IF now[i] \in NamesOf(last_fields) THEN "modify" ELSE "add", now[i],
               TypeOf(current, now[i]))]
     \o [i \in DOMAIN gone |-> Change("remove", gone[i], "")]

\* generate_create_table_sql raises ValueError for a model without fields.
generate_create_table_sql(model) ==
  IF model.fields = {} THEN [err |-> "ValueError", sql |-> Change("", "", "")]
  ELSE [err |-> "", sql |-> Change("create", "", "")]

\* One thing migrate() did for the i-th model: a statement sent with
\* db.query, a db.connection.commit(), or a save_schema_history.
Step(i, step, sql, saved) ==
  [i |-> i, step |-> step, kind |-> IF sql.op = "create" THEN "CREATE TABLE"
                                    ELSE IF sql.op = "" THEN "" ELSE "ALTER TABLE",
   op |-> sql.op, field |-> sql.field, saved |-> saved]

\* db.query(sql) and db.connection.commit(); the fail-th statement of the
\* run raises in the database and ends migrate().
Query(acc, i, sql) ==
  IF acc.raised THEN acc
  ELSE IF acc.sent + 1 = acc.fail
  THEN [acc EXCEPT !.raised = TRUE, !.sent = @ + 1,
                   !.trace = Append(@, Step(i, "query", sql, {}))]
  ELSE [acc EXCEPT !.sent = @ + 1,
                   !.trace = @ \o <<Step(i, "query", sql, {}), Step(i, "commit", Change("", "", ""), {})>>]

save_schema_history(acc, i, model, schema) ==
  IF acc.raised THEN acc
  ELSE [acc EXCEPT !.hist[model.name] = schema,
                   !.trace = Append(@, Step(i, "save", Change("", "", ""), schema))]

\* the create branch taken only for a model without history
CreateBranchIgnoresReplay(replay, last_fields) == last_fields = {}

\* if replay or not last_fields
CreateBranch(replay, last_fields) == replay \/ last_fields = {}

CreateTable(acc, i, model, current, dry_run, g) ==
  IF g.err # "" \/ dry_run THEN acc
  ELSE save_schema_history(Query(acc, i, g.sql), i, model, current)

RECURSIVE AlterLoop(_, _, _, _)
AlterLoop(acc, i, changes, dry_run) ==
  IF changes = <<>> THEN acc
  ELSE AlterLoop(IF dry_run THEN acc ELSE Query(acc, i, Head(changes)), i, Tail(changes),
                 dry_run)

AlterTable(acc, i, model, current, dry_run, changes) ==
  IF changes = <<>> THEN acc
  ELSE save_schema_history(AlterLoop(acc, i, changes, dry_run), i, model, current)

MigrateModel(acc, i, model, dry_run, replay, last_fields) ==
  IF acc.raised \/ Ignored(model) THEN acc
  ELSE IF CreateBranch(replay, last_fields)
  THEN CreateTable(acc, i, model, get_model_schema_snapshot(model), dry_run,
                   generate_create_table_sql(model))
  ELSE AlterTable(acc, i, model, get_model_schema_snapshot(model), dry_run,
                  diff_model_to_history(get_model_schema_snapshot(model), last_fields))

RECURSIVE MigrateLoop(_, _, _, _, _)
MigrateLoop(acc, i, discovered, dry_run, replay) ==
  IF i > Len(discovered) THEN acc
  ELSE MigrateLoop(MigrateModel(acc, i, discovered[i], dry_run, replay,
                                get_last_known_fields(load_schema_history(acc.hist,
                                                                          discovered[i]))),
                   i + 1, discovered, dry_run, replay)

migrate(discovered, hist, dry_run, replay, fail) ==
  MigrateLoop([hist |-> hist, trace |-> <<>>, raised |-> FALSE, sent |-> 0, fail |-> fail],
              1, discovered, dry_run, replay)

Histories == [{ModelNames[i] : i \in DOMAIN ModelNames} -> FieldSets]

MigInit ==
  /\ history \in Histories
  /\ phistory = history
  /\ mtrace = <<>>
  /\ \E lib \in DiscoveredLists :
       mlast = [op |-> "none", dry_run |-> FALSE, replay |-> FALSE,
                models |-> discover_models(lib), raised |-> FALSE]
  /\ mruns = 0
  /\ CLIIdle
  /\ QIdle
  /\ BPIdle
  /\ ARIdle

\* One run of migrate() on the models of lib: fail = 0 when the database
\* takes every statement.
Migrate ==
  /\ mruns < MaxMigrations
  /\ \E dry_run \in BOOLEAN, replay \in BOOLEAN, fail \in 0 .. MaxFail :
       \E m \in {migrate(mlast.models, history, dry_run, replay, fail)} :
          /\ history' = m.hist
          /\ phistory' = history
          /\ mtrace' = m.trace
          /\ mlast' = [mlast EXCEPT !.op = "migrate", !.dry_run = dry_run,
                                    !.replay = replay, !.raised = m.raised]
  /\ mruns' = mruns + 1
  /\ UNCHANGED <<qvars, bpvars, arvars, clivars>>

MigNext == Migrate

SpecMig == MigInit /\ [][MigNext]_vars

(***************************************************************************)
(* cli: the scaffolding commands and the working directory they write in.  *)
(* A name is a sequence of characters.  A path under lib is                *)
(* lib/<dir>/<res>/<sub>/<stem><ext>, with the parts it does not have left *)
(* empty; a directory has no stem and no ext.                              *)
(***************************************************************************)
Letters == {"w", "W"}
Digits == {"1"}

\* re.fullmatch(r"[A-Za-z_][A-Za-z0-9_]*", name)
validate_identifier(name) ==
  IF /\ name # <<>>
     /\ name[1] \in Letters \cup {"_"}
     /\ \A i \in DOMAIN name : name[i] \in Letters \cup Digits \cup {"_"}
  THEN "" ELSE "ValueError"

replace(value, old, new) == [i \in DOMAIN value |-> IF value[i] = old THEN new ELSE value[i]]

lower(word) == [i \in DOMAIN word |-> IF word[i] = "W" THEN "w" ELSE word[i]]

upper(word) == [i \in DOMAIN word |-> IF word[i] = "w" THEN "W" ELSE word[i]]

capitalize(word) == [i \in DOMAIN word |-> IF i = 1 THEN upper(word)[i] ELSE lower(word)[i]]

\* re.sub(r'(?<!^)(?=[A-Z])', ' ', word)
split_camel_case(word) ==
  Flatten([i \in DOMAIN word |-> IF i > 1 /\ word[i] = "W" THEN <<" ", word[i]>>
                                 ELSE <<word[i]>>])

\* inflect's plural of a regular noun
plural(phrase) == Append(phrase, "s")

\* str.split()
RECURSIVE Words(_)
Words(phrase) ==
  IF phrase = <<>> THEN <<>>
  ELSE IF Head(phrase) = " " THEN Words(Tail(phrase))
  ELSE LET stops == {i \in DOMAIN phrase : phrase[i] = " "} \cup {Len(phrase) + 1}
           n == CHOOSE i \in stops : \A k \in stops : i <= k
       IN <<SubSeq(phrase, 1, n - 1)>> \o Words(SubSeq(phrase, n, Len(phrase)))

to_pascal_case(phrase) ==
  Flatten([i \in DOMAIN Words(phrase) |-> capitalize(Words(phrase)[i])])

to_snake_case(phrase) ==
  Flatten([i \in DOMAIN Words(phrase) |->
             IF i = 1 THEN lower(Words(phrase)[i]) ELSE <<"_">> \o lower(Words(phrase)[i])])

\* The two names the paths are made of.
transform_word(raw_word) ==
  [pascal_singular |-> to_pascal_case(split_camel_case(raw_word)),
   snake_plural |-> to_snake_case(plural(lower(split_camel_case(raw_word))))]

P(dir, rsc, sub, stem, ext) ==
  [dir |-> dir, res |-> rsc, sub |-> sub, stem |-> stem, ext |-> ext]

Dir(dir, rsc, sub) == P(dir, rsc, sub, <<>>, "")

dirname(path) == Dir(path.dir, path.res, path.sub)

Content(kind, arg) == [kind |-> kind, arg |-> arg]

exists(st, path) == path \in DOMAIN st.files \/ path \in st.dirs

\* os.makedirs(path, exist_ok=True): the directory and those above it, up
\* to the working directory ".", which exists.
makedirs(st, d) ==
  IF d.dir = "." THEN st
  ELSE [st EXCEPT !.dirs = @ \cup {Dir("", <<>>, ""), Dir(d.dir, <<>>, ""),
                                    Dir(d.dir, d.res, ""), d}]

\* open(path, "w").write(content)
write(st, path, content) ==
  [st EXCEPT !.files = [q \in DOMAIN st.files \cup {path} |->
                          IF q = path THEN content ELSE st.files[q]]]

\* write_file without its test of the existing file
write_file_unguarded(st, path, content, overwrite) ==
  [st |-> write(makedirs(st, dirname(path)), path, content), written |-> TRUE]

write_file(st, path, content, overwrite) ==
  IF exists(st, path) /\ ~overwrite THEN [st |-> st, written |-> FALSE]
  ELSE [st |-> write(makedirs(st, dirname(path)), path, content), written |-> TRUE]

Done(st, err) == [st |-> st, err |-> err]

(* cli/database.py *)
DbTypes == {"mysql", "MSSQL", "oracle"}

db_type_lower(db_type) == IF db_type = "MSSQL" THEN "mssql" ELSE db_type

ServiceFile(name) == P("services", <<>>, "", name, "Database.py")

create_database_service(st, name, db_type, overwrite) ==
  IF validate_identifier(name) # "" THEN Done(st, "ValueError")
  ELSE IF db_type_lower(db_type) \notin {"mysql", "mssql"}
  THEN Done(makedirs(st, Dir("services", <<>>, "")), "ValueError")
  ELSE IF exists(makedirs(st, Dir("services", <<>>, "")), ServiceFile(name)) /\ ~overwrite
  THEN Done(makedirs(st, Dir("services", <<>>, "")), "")
  ELSE Done(write(makedirs(st, Dir("services", <<>>, "")), ServiceFile(name),
                  Content(db_type_lower(db_type), name)), "")

(* cli/resource_handler.py *)
Subfolders == {"tables", "templates", "forms", "styles", "scripts", "models", "infolists"}

Templates == {"index.html", "create.html", "edit.html", "details.html"}

RECURSIVE WriteAll(_, _, _, _)
WriteAll(st, paths, content, overwrite) ==
  IF paths = {} THEN st
  ELSE LET p == CHOOSE q \in paths : TRUE
       IN WriteAll(write_file(st, p, content, overwrite).st, paths \ {p}, content, overwrite)

RECURSIVE MakeAll(_, _)
MakeAll(st, ds) ==
  IF ds = {} THEN st
  ELSE LET d == CHOOSE q \in ds : TRUE IN MakeAll(makedirs(st, d), ds \ {d})

\* The table is generated when the form was written, the infolist when the
\* table was.
FormChain(st, r, database, overwrite, form) ==
  IF ~form.written THEN st
  ELSE LET table == write_file(form.st, P("handlers", r.snake_plural, "tables",
                                          r.pascal_singular, "Table.py"),
                               Content("table", database), overwrite)
       IN IF ~table.written THEN table.st
          ELSE write_file(table.st, P("handlers", r.snake_plural, "infolists",
                                      r.pascal_singular, "InfoList.py"),
                          Content("infolist", database), overwrite).st

Scaffold(st, r, database, overwrite) ==
  LET made == MakeAll(st, {Dir("handlers", r.snake_plural, s) : s \in Subfolders})
      templated == WriteAll(made, {P("handlers", r.snake_plural, "templates", <<>>, t) :
                                     t \in Templates},
                            Content("template", r.pascal_singular), overwrite)
      modelled == write_file(templated, P("handlers", r.snake_plural, "models",
                                          r.pascal_singular, ".py"),
                             Content("model", r.pascal_singular), overwrite).st
      formed == FormChain(modelled, r, database, overwrite,
                          write_file(modelled, P("handlers", r.snake_plural, "forms",
                                                 r.pascal_singular, "Form.py"),
                                     Content("form", database), overwrite))
  IN write_file(formed, P("handlers", r.snake_plural, "", r.pascal_singular, "Controller.py"),
                Content("controller", database), overwrite).st

\* database = <<>> is the call without a database.
create_resource_handler(st, resource_name, database, overwrite) ==
  IF validate_identifier(replace(resource_name, "-", "_")) # "" THEN Done(st, "ValueError")
  ELSE IF database = <<>> \/ validate_identifier(database) # "" THEN Done(st, "ValueError")
  ELSE Done(Scaffold(st, transform_word(resource_name), database, overwrite), "")

(* cli/structure.py *)
Folders == {"globals", "handlers", "services", "storedprocs", "utils", "models", "resources"}

\* The files copied from the installed package when it has them.
Assets ==
  {P("services", <<>>, "", <<>>, "ADAuth.py"), P("services", <<>>, "", <<>>, "DESBus.py"),
   P("services", <<>>, "", <<>>, "DomainEventOutbox.py"),
   P("services", <<>>, "", <<>>, "DomainEventBus.py"),
   P("models", <<>>, "", <<>>, "ViewState.py"),
   P("models", <<>>, "", <<>>, "InformationSchema.py")}

UsersFolder == Dir("handlers", <<"users">>, "")

UsersFiles == {P("handlers", <<"users">>, "", <<"User">>, "Controller.py")}

\* base.html, styles.html and .env: written when missing or overwrite.
PackageFiles ==
  {P("handlers", <<>>, "", <<>>, "base.html"), P("handlers", <<>>, "", <<>>, "styles.html"),
   P(".", <<>>, "", <<>>, ".env")}

\* shutil.copytree(dirs_exist_ok=True) writes every file of the tree.
CopyUsers(st, pkg, overwrite) ==
  IF "users" \notin pkg \/ (exists(st, UsersFolder) /\ ~overwrite) THEN st
  ELSE WriteAll(makedirs(st, UsersFolder), UsersFiles, Content("package", <<>>), TRUE)

create_lib_structure(st, pkg, overwrite) ==
  LET made == MakeAll(st, {Dir(f, <<>>, "") : f \in Folders}
                          \cup {Dir("resources", <<s>>, "") : s \in {"css", "js", "images"}})
      three == WriteAll(made, PackageFiles, Content("package", <<>>), overwrite)
      copied == CopyUsers(three, pkg, overwrite)
  IN Done(WriteAll(copied, IF "assets" \in pkg THEN Assets ELSE {}, Content("package", <<>>),
                   overwrite), "")

(* cli/form_related.py *)
\* re.search(r"class (\w+)\(ActiveRecord\):", model_content): the class name
\* of a model file is the arg of its content.
HasModelClass(content) ==
  /\ content.kind \in {"model", "usermodel"}
  /\ content.arg # <<>>
  /\ \A i \in DOMAIN content.arg : content.arg[i] \in Letters \cup Digits \cup {"_"}

\* models_path.glob("*.py")
ModelFiles(st, r) ==
  {p \in DOMAIN st.files : p.dir = "handlers" /\ p.res = r.snake_plural /\ p.sub = "models"
                           /\ p.ext = ".py"}

GenerateFrom(st, r, model_file, is_table, overwrite) ==
  IF ~HasModelClass(st.files[model_file]) THEN st
  ELSE IF ~is_table
  THEN write_file(st, P("handlers", r.snake_plural, "forms", r.pascal_singular, "Form.py"),
                  Content("generated form", <<st.files[model_file].kind>>), overwrite).st
  ELSE write_file(write_file(st, P("handlers", r.snake_plural, "tables", r.pascal_singular,
                                   "Table.py"),
                             Content("generated table", <<st.files[model_file].kind>>),
                             overwrite).st,
                  P("handlers", r.snake_plural, "infolists", r.pascal_singular,
                    "InfoList.py"),
                  Content("generated infolist", <<st.files[model_file].kind>>), overwrite).st

\* model_file is model_files[0], in the order the directory lists them.
generate_form(st, r, model_file, is_table, overwrite) ==
  IF \/ ~exists(st, Dir("handlers", r.snake_plural, "models"))
     \/ ~exists(st, Dir("handlers", r.snake_plural, IF is_table THEN "tables" ELSE "forms"))
     \/ ModelFiles(st, r) = {}
  THEN Done(st, "")
  ELSE Done(GenerateFrom(st, r, model_file, is_table, overwrite), "")

CliNames == {<<"w">>, <<"w", "W">>, <<"1", "w">>, <<"w", "-", "w">>, <<>>}

Databases == {<<>>, <<"W">>}

Packages == {{"users", "assets"}, {}}

\* Files the user wrote before any command ran.
UserFiles ==
  {ServiceFile(<<"w">>), P("handlers", <<"w", "s">>, "models", <<"W">>, ".py"),
   P("handlers", <<"w", "s">>, "forms", <<"W">>, "Form.py")}

UserTree(paths) ==
  MakeAll([files |-> [p \in paths |-> IF p.sub = "models" THEN Content("usermodel", p.stem)
                                       ELSE Content("user", <<>>)],
           dirs |-> {}],
          {dirname(p) : p \in paths})

CLIInit ==
  /\ \E paths \in SUBSET UserFiles :
       /\ files = UserTree(paths).files
       /\ dirs = UserTree(paths).dirs
  /\ pfiles = files
  /\ pdirs = dirs
  /\ clast = [op |-> "none", name |-> <<>>, overwrite |-> FALSE, err |-> ""]
  /\ ccalls = 0
  /\ MigIdle
  /\ QIdle
  /\ BPIdle
  /\ ARIdle

Run(op, name, overwrite, done) ==
  /\ ccalls < MaxCLICalls
  /\ files' = done.st.files
  /\ dirs' = done.st.dirs
  /\ pfiles' = files
  /\ pdirs' = dirs
  /\ clast' = [op |-> op, name |-> name, overwrite |-> overwrite, err |-> done.err]
  /\ ccalls' = ccalls + 1
  /\ UNCHANGED <<qvars, bpvars, arvars, migvars>>

CreateDatabaseService ==
  \E name \in CliNames, db_type \in DbTypes, overwrite \in BOOLEAN :
    Run("create_database_service", name, overwrite,
        create_database_service([files |-> files, dirs |-> dirs], name, db_type, overwrite))

CreateResourceHandler ==
  \E name \in CliNames, database \in Databases, overwrite \in BOOLEAN :
    Run("create_resource_handler", name, overwrite,
        create_resource_handler([files |-> files, dirs |-> dirs], name, database, overwrite))

CreateLibStructure ==
  \E pkg \in Packages, overwrite \in BOOLEAN :
    Run("create_lib_structure", <<>>, overwrite,
        create_lib_structure([files |-> files, dirs |-> dirs], pkg, overwrite))

GenerateForm ==
  \E name \in CliNames, is_table \in BOOLEAN, overwrite \in BOOLEAN :
    \E r \in {transform_word(name)} :
      \E model_file \in IF ModelFiles([files |-> files, dirs |-> dirs], r) = {}
                         THEN {Dir("", <<>>, "")}
                         ELSE ModelFiles([files |-> files, dirs |-> dirs], r) :
        Run("generate_form", name, overwrite,
            generate_form([files |-> files, dirs |-> dirs], r, model_file, is_table, overwrite))

CLINext ==
  \/ CreateDatabaseService \/ CreateResourceHandler \/ CreateLibStructure \/ GenerateForm

SpecCLI == CLIInit /\ [][CLINext]_vars

(***************************************************************************)
(* Helpers of the properties.                                              *)
(***************************************************************************)
Contains(s, sub) ==
  \E i \in 0 .. Len(s) - Len(sub) : \A j \in 1 .. Len(sub) : s[i + j] = sub[j]

ClauseOps == {"where", "or_where", "where_in", "where_not_in", "where_between",
              "where_null", "nest", "or_nest", "where_exists", "having", "limit",
              "offset", "union", "with_cte", "case", "add_select_subquery"}

IsFlat(ws) == \A k \in DOMAIN ws : Len(ws[k]) = 1

\* Every segment of every path names a has-many relationship.
OnlyHasMany(ws) == \A k \in DOMAIN ws : \A d \in DOMAIN ws[k] : ws[k][d] \in {"a", "c"}

\* The number of statements sent to the databases.
RECURSIVE QueryCount(_)
QueryCount(log) == IF log = <<>> THEN 0 ELSE Head(log).n + QueryCount(Tail(log))

IsBatch(entry) == entry.method = "pquery"

\* What the query of a relationship returns when it is run alone, with its
\* own parameters, on the database of the relationship's model.
OwnRows(q) ==
  FetchAll(execute(DatabaseOf(Relationship(models[1], q.key).rel_cls), q.sql, q.params,
                   tables)).rows

RECURSIVE PreloadedAlong(_, _)
PreloadedAlong(objs, path) ==
  \/ path = <<>>
  \/ \A i \in DOMAIN objs :
       /\ objs[i].cache[Head(path)].set
       /\ PreloadedAlong(objs[i].cache[Head(path)].objs, Tail(path))

(***************************************************************************)
(* C1: run() on N parents with a with-list of top-level relationships      *)
(* sends one batched child query per relationship, and as many queries in  *)
(* all as the run on the first parent alone: the number does not grow with *)
(* N, whatever the types of the relationships.                             *)
(***************************************************************************)
C1_QueriesDoNotGrowWithParents ==
  (pc = "done" /\ withs # <<>> /\ IsFlat(withs)) =>
     /\ QueryCount(SelectSeq(qlog, IsBatch)) = Len(withs)
     /\ QueryCount(qlog)
          = QueryCount(run(<<ActiveRecord("M1", models[1].data)>>, withs, tables).log)

(***************************************************************************)
(* C2: after run() with has-many relationships, the cache of every parent  *)
(* for every relationship is set and holds exactly the fetched records     *)
(* whose foreign key equals the parent's owner key, in the order fetched;  *)
(* a parent without children holds the empty list.                         *)
(***************************************************************************)
C2_HasManyCacheIsOwnChildren ==
  (pc \in {"done", "raised"} /\ withs # <<>> /\ OnlyHasMany(withs)) =>
     \A i \in DOMAIN models, j \in DOMAIN join_meta :
        LET Own(row) == row[join_meta[j].fk_field] = models[i].data[join_meta[j].owner_key]
            cached == models[i].cache[join_meta[j].rel]
        IN /\ cached.set
           /\ [k \in DOMAIN cached.objs |-> cached.objs[k].data]
                = SelectSeq(normalize_results(raw_results)[join_meta[j].rel], Own)

(***************************************************************************)
(* C3: after run(), for every path of the with-list the relationship of    *)
(* every segment is preloaded on every record loaded for the segment       *)
(* before it.                                                              *)
(***************************************************************************)
C3_EveryDepthPreloaded ==
  (pc = "done" /\ OnlyHasMany(withs)) =>
     \A k \in DOMAIN withs : PreloadedAlong(models, withs[k])

C5_PlaceholdersMatchParameters ==
  ops \subseteq ClauseOps => CountPlaceholders(to_sql(qb)) = Len(qb.parameters)

(***************************************************************************)
(* C6: update(values) raises ValueError for empty values or a builder      *)
(* without WHERE condition; otherwise the statement has a WHERE clause and *)
(* its parameters are the SET values followed by the parameters of the     *)
(* conditions.                                                             *)
(***************************************************************************)
C6_UpdateParameters ==
  last.op = "update" =>
    IF last.x = 0 \/ qb.conditions = <<>>
    THEN last.err = "ValueError"
    ELSE /\ last.err = ""
         /\ Contains(SqlText(res.sql), <<"WHERE">>)
         /\ res.params = res.setvals \o PlaceholderVals(build_conditions(qb, FALSE))

(***************************************************************************)
(* C7: paginate(page, per_page) raises ValueError for page < 1 or          *)
(* per_page < 1, and on mssql for a query without ORDER BY; otherwise it   *)
(* emits LIMIT %s OFFSET %s with the parameters (per_page, offset) on      *)
(* mysql and OFFSET %s ROWS FETCH NEXT %s ROWS ONLY with (offset,          *)
(* per_page) on mssql, where offset = (page - 1) * per_page.               *)
(***************************************************************************)
C7_Paginate ==
  last.op = "paginate" =>
    LET page == last.x
        per_page == last.y
        off == (page - 1) * per_page
        n == Len(qb.parameters)
    IN IF page < 1 \/ per_page < 1 \/ (qb.driver = "mssql" /\ prev.order_by_clauses = <<>>)
       THEN last.err = "ValueError"
       ELSE /\ last.err = ""
            /\ n >= 2
            /\ IF qb.driver = "mssql"
               THEN /\ Contains(to_sql(qb), <<T("OFFSET"), PH(off), T("ROWS"), T("FETCH"),
                                             T("NEXT"), PH(per_page), T("ROWS"), T("ONLY")>>)
                    /\ SubSeq(qb.parameters, n - 1, n) = <<off, per_page>>
               ELSE /\ Contains(to_sql(qb), <<T("LIMIT"), PH(per_page), T("OFFSET"), PH(off)>>)
                    /\ SubSeq(qb.parameters, n - 1, n) = <<per_page, off>>

C7_Witness ==
  /\ last.op = "paginate" /\ last.err = "" /\ last.x = 2 /\ last.y = 2
  /\ qb.driver = "mssql"
  /\ qb.conditions # <<>>

(***************************************************************************)
(* C8: paginate() called again removes only the parameters the previous    *)
(* paginate injected; every other parameter keeps its place.               *)
(***************************************************************************)
C8_RepaginateKeepsOtherParameters ==
  (last.op = "paginate" /\ last.err = "" /\ prev.pg_idx # {}) =>
     SubSeq(qb.parameters, 1, Len(qb.parameters) - 2) = DropIdx(prev.parameters, prev.pg_idx)

(***************************************************************************)
(* C9: clone().get() returns the SQL and parameters of get() on the        *)
(* original, for a QueryBuilder and for an ActiveRecord query alike.       *)
(***************************************************************************)
C9_ClonePreservesQuery ==
  last.op = "clone" => get(cl) = get(qb)

(***************************************************************************)
(* C10: as_count() on a query with order_by/limit/offset/paginate gives    *)
(* the SQL and parameters of as_count() on the query without them, and a   *)
(* query with GROUP BY is wrapped in a subquery.                           *)
(***************************************************************************)
C10_AsCountDropsPagination ==
  last.op = "as_count" =>
    /\ get(qb) = get(qbare)
    /\ prev.group_by_columns # <<>> => Contains(SqlText(qb.table), <<"count_subquery">>)

(***************************************************************************)
(* C11: remove_limit() on a query whose placeholders match its parameters  *)
(* leaves a query whose SQL has no LIMIT, OFFSET or FETCH clause and whose *)
(* parameter list no longer holds the values limit()/offset() bound: the   *)
(* placeholders still match the parameters.                                *)
(***************************************************************************)
C11_RemoveLimitDropsParameters ==
  (last.op = "remove_limit" /\ CountPlaceholders(to_sql(prev)) = Len(prev.parameters)) =>
     /\ \A i \in DOMAIN to_sql(qb) :
           to_sql(qb)[i].txt \notin {"LIMIT", "OFFSET", "FETCH"}
     /\ CountPlaceholders(to_sql(qb)) = Len(qb.parameters)

(***************************************************************************)
(* C12: remove_first_condition(query), on a query with conditions whose    *)
(* parameters are those of its placeholders, returns a query without the   *)
(* first condition and without the parameters of that condition: the       *)
(* parameters left are those of the placeholders left.  With clone = True  *)
(* the query passed in is unchanged.                                       *)
(***************************************************************************)
C12_RemoveFirstConditionKeepsBinding ==
  (/\ last.op = "remove_first_condition"
   /\ prev.conditions # <<>>
   /\ prev.parameters = PlaceholderVals(to_sql(prev))) =>
     /\ cl.conditions = Tail(prev.conditions)
     /\ cl.parameters = PlaceholderVals(to_sql(cl))
     /\ last.x = 1 => qb = prev


(***************************************************************************)
(* C13: with_only() changes the preloaded relationships of its own query   *)
(* only: a later query of the class that was made without with_only() (and *)
(* without with_()) and finds a row with find() or first() still preloads  *)
(* the class default __with__.                                             *)
(***************************************************************************)
C13_WithOnlyIsPerQuery ==
  (/\ alast.op \in {"find", "first"} /\ alast.err = ""
   /\ obj.kind = "model"
   /\ pobj.kind = "model" /\ pobj.origin = "new" /\ ~pobj.overrides.set) =>
     resolved = DefaultWith


(***************************************************************************)
(* C14: update() with values to set, called on the instance that find() or *)
(* first() handed back, succeeds as an update of that single row: every    *)
(* statement it sends has as many placeholders as parameters, and no row   *)
(* of the table other than the instance's own is changed.                  *)
(***************************************************************************)
C14_InstanceUpdateIsOneRow ==
  (/\ alast.op = "update" /\ alast.x > 0
   /\ pobj.kind = "model" /\ pobj.origin \in {"find", "first"}) =>
     /\ alast.err = ""
     /\ \A i \in DOMAIN trace :
          trace[i].kind = "sql" => CountPlaceholders(trace[i].sql) = Len(trace[i].params)
     /\ \A i \in DOMAIN trows : trows[i] # prows[i] => prows[i].id = pobj.data.id


(***************************************************************************)
(* C15: update() with values to set, called on a query of the class that   *)
(* has WHERE conditions (not on a fetched instance).  After with_events()  *)
(* it is the bulk update with events: every row it changes had its own     *)
(* updating, saving, updated and saved events, in this order, and the      *)
(* number of affected rows is returned.  Without with_events() it sends    *)
(* exactly one UPDATE and fires none of these lifecycle events.            *)
(***************************************************************************)
UpdateEvents == {"updating", "saving", "updated", "saved"}

LifecycleOf(tr, id) ==
  LET Keep(e) == e.kind = "event" /\ e.name \in UpdateEvents /\ e.target = id
      s == SelectSeq(tr, Keep)
  IN [i \in DOMAIN s |-> s[i].name]

C15_QueryLevelUpdate ==
  (/\ alast.op = "update" /\ alast.x > 0 /\ alast.err = ""
   /\ pobj.kind = "model" /\ pobj.origin \in {"new", "with_only"}
   /\ pobj.q.conditions # <<>>
   /\ CountPlaceholders(to_sql(pobj.q)) = Len(pobj.q.parameters)) =>
     IF pobj.with_events
     THEN /\ \A i \in DOMAIN trows :
               trows[i] # prows[i] =>
                 LifecycleOf(trace, prows[i].id) = <<"updating", "saving", "updated", "saved">>
          /\ returned = [kind |-> "int",
                         val |-> Cardinality({i \in DOMAIN trows : trows[i] # prows[i]})]
     ELSE /\ Cardinality({i \in DOMAIN trace : trace[i].kind = "sql"
                                               /\ trace[i].name = "UPDATE"}) = 1
          /\ \A i \in DOMAIN trace :
               trace[i].kind = "event" => trace[i].name \notin UpdateEvents


(***************************************************************************)
(* C16: whenever a lifecycle event is fired, the class-level listeners     *)
(* that run for it, those of the event's name and those of "__all__", run  *)
(* in non-increasing priority order.                                       *)
(***************************************************************************)
C16_ListenersRunByPriority ==
  \A i \in DOMAIN trace :
    trace[i].kind = "event" =>
      \A a, b \in DOMAIN trace[i].calls :
        a < b => trace[i].calls[a].priority >= trace[i].calls[b].priority


(***************************************************************************)
(* C18: a migrate(dry_run=False, replay=True) that returns has executed,   *)
(* for every discovered model that is not marked __ignore_migration__,     *)
(* exactly one statement, the CREATE TABLE of the model, then a commit,    *)
(* then the save of the model's current schema snapshot, whatever the      *)
(* schema history was; it has sent no ALTER statement.                     *)
(***************************************************************************)
StepsOf(i) ==
  LET Mine(e) == e.i = i
      s == SelectSeq(mtrace, Mine)
  IN [k \in DOMAIN s |-> <<s[k].step, s[k].kind>>]

CreatedAndSaved(i) ==
  /\ StepsOf(i) = <<<<"query", "CREATE TABLE">>, <<"commit", "">>, <<"save", "">>>>
  /\ history[mlast.models[i].name] = get_model_schema_snapshot(mlast.models[i])

ReplayReturned == mlast.op = "migrate" /\ mlast.replay /\ ~mlast.dry_run /\ ~mlast.raised

NoAlter == \A k \in DOMAIN mtrace : mtrace[k].kind # "ALTER TABLE"

C18_ReplayCreatesEveryModel ==
  ReplayReturned =>
    /\ \A i \in DOMAIN mlast.models : ~Ignored(mlast.models[i]) => CreatedAndSaved(i)
    /\ NoAlter

(***************************************************************************)
(* C18, as the code has it: the CREATE TABLE, the commit and the save are  *)
(* done for every discovered model that is not marked and declares fields; *)
(* for a model without declared fields, as for a marked one, nothing is    *)
(* executed and nothing is saved.  No ALTER statement is sent.             *)
(***************************************************************************)
C18_ReplayCreatesModelsWithFields ==
  ReplayReturned =>
    /\ \A i \in DOMAIN mlast.models :
         IF ~Ignored(mlast.models[i]) /\ mlast.models[i].fields # {}
         THEN CreatedAndSaved(i)
         ELSE /\ StepsOf(i) = <<>>
              /\ history[mlast.models[i].name] = phistory[mlast.models[i].name]
    /\ NoAlter

\* A replay over a model whose saved history differs from its fields, next
\* to a model without fields.
C18_Witness ==
  /\ ReplayReturned
  /\ Len(mlast.models) = 2
  /\ ~Ignored(mlast.models[1]) /\ mlast.models[1].fields # {}
  /\ phistory[mlast.models[1].name] \notin {{}, mlast.models[1].fields}
  /\ CreatedAndSaved(1)
  /\ ~Ignored(mlast.models[2]) /\ mlast.models[2].fields = {}


(***************************************************************************)
(* C17: create_database_service and create_resource_handler called with a  *)
(* name that is not an identifier (letters, digits and underscores, not    *)
(* starting with a digit) raise ValueError and create no file and no       *)
(* directory.                                                              *)
(***************************************************************************)
NotAnIdentifier(name) ==
  \/ name = <<>>
  \/ name[1] \in Digits
  \/ \E i \in DOMAIN name : name[i] \notin Letters \cup Digits \cup {"_"}

C17_InvalidNameRaises ==
  (/\ clast.op \in {"create_database_service", "create_resource_handler"}
   /\ NotAnIdentifier(clast.name)) =>
     /\ clast.err = "ValueError"
     /\ files = pfiles
     /\ dirs = pdirs

(***************************************************************************)
(* C19: a scaffolding command run with overwrite=False leaves every file   *)
(* that existed before it as it was: it writes missing files only, and a   *)
(* second run changes no file of the first.                                *)
(***************************************************************************)
C19_NoOverwriteKeepsFiles ==
  (clast.op # "none" /\ ~clast.overwrite) =>
     \A p \in DOMAIN pfiles : p \in DOMAIN files /\ files[p] = pfiles[p]

\* create_resource_handler without overwrite on a resource whose form the
\* user wrote: the form is kept, the missing files are written.
C19_Witness ==
  /\ clast.op = "create_resource_handler" /\ ~clast.overwrite /\ clast.err = ""
  /\ \E p \in DOMAIN pfiles :
       /\ p.res = transform_word(clast.name).snake_plural /\ p.sub = "forms"
       /\ pfiles[p].kind = "user" /\ files[p] = pfiles[p]
  /\ DOMAIN files # DOMAIN pfiles


(***************************************************************************)
(* C20: in the SQL and parameter list of get(), the i-th '%s' placeholder  *)
(* is bound to the value supplied by the builder call that produced it,    *)
(* whatever the order of the clause-adding calls.  Stated where the SQL    *)
(* has as many placeholders as the list has parameters, so that every      *)
(* placeholder has a parameter.                                            *)
(***************************************************************************)
C20_PlaceholdersBoundInOrder ==
  (ops \subseteq ClauseOps /\ CountPlaceholders(to_sql(qb)) = Len(qb.parameters)) =>
    \A i \in DOMAIN qb.parameters : qb.parameters[i] = PlaceholderVals(to_sql(qb))[i]

=============================================================================
